---- MODULE Spec2Model ----
(***************************************************************************)
(* A model of the ComStar gateway adapter (vnpy_comstar):                  *)
(*   ComstarGateway  - the outbound request builders and the quote cache   *)
(*   UserApi         - the inbound callbacks and the order/trade filters   *)
(*   QuoteInfo       - the per-instrument bilateral price ladders          *)
(* Python strings that the code splits are modelled as the sequence of     *)
(* their parts: a compound symbol "180406_T0" is <<"180406", "T0">> (the   *)
(* result of split("_")), an enum wire string "Status.ALLTRADED" is        *)
(* <<"Status", "ALLTRADED">> (the result of split(".")).  A string holds   *)
(* the separator iff it has more than one part.                            *)
(* Quantities divided by the contract multiplier are exact rationals       *)
(* <<numerator, denominator>> in lowest terms.                             *)
(***************************************************************************)
EXTENDS Integers, Sequences, FiniteSets, TLC

\* comstar_gateway.py:44  SIZE = 10_000_000 (contract multiplier)
SIZE == 10000000

(***************************************************************************)
(* Bounds of the model                                                     *)
(***************************************************************************)
\* raw traded volumes pushed by the vendor are 0..MaxTraded lots of SIZE
MaxTraded == 1
\* longest batch delivered to on_all_orders / on_all_trades / on_all_quotes
MaxBatch == 2
\* most parts ("_"-separated) a requested symbol string has
MaxParts == 3

(***************************************************************************)
(* Values                                                                  *)
(***************************************************************************)
\* Python's None, as an enum value and as a result
None == <<>>

\* the names an adapter instance is constructed with (default_name, and the
\* name on_login and on_tick compare against)
GatewayNames == {"COMSTAR", "COMSTAR-QUOTE"}

\* VN_ENUMS: the registry of enum classes, each with (some of) its members
VN_ENUMS ==
    [Exchange  |-> {"XBOND", "CFETS"},
     Product   |-> {"BOND"},
     Offset    |-> {"NONE"},
     OrderType |-> {"LIMIT", "FAK", "MARKET"},
     Direction |-> {"LONG", "SHORT"},
     Status    |-> {"SUBMITTING", "NOTTRADED", "PARTTRADED", "ALLTRADED",
                    "CANCELLED", "REJECTED"}]

Enum(name, member) == <<name, member>>

SUBMITTING == Enum("Status", "SUBMITTING")

\* a returned string is the sequence of its "."-separated parts: "" is <<"">>
\* and f"{gateway_name}.{order_id}" is <<gateway_name, order_id>>
EmptyStr == <<"">>

\* the outcome of a call: a returned value, or an exception raised to the caller
Returned(v) == [raised |-> FALSE, value |-> v]
Raised(exc)  == [raised |-> TRUE, value |-> <<exc>>]

\* enum_decode(s): s is the wire string as its "."-separated parts
enum_decode(s) ==
    IF Len(s) > 1
    THEN IF Len(s) # 2
         THEN Raised("ValueError")           \* name, member = s.split(".")
         ELSE IF s[1] \notin DOMAIN VN_ENUMS
              THEN Raised("KeyError")        \* VN_ENUMS[name]
              ELSE IF s[2] \notin VN_ENUMS[s[1]]
                   THEN Raised("AttributeError")   \* getattr(..., member)
                   ELSE Returned(Enum(s[1], s[2]))
    ELSE Returned(None)

\* timestamps on the wire, as their "."-separated parts: date and time of day
\* with or without a fraction of a second, the empty string, and a string in
\* another form
GoodTime == <<"20240102 09:30:00">>
GoodTimeFraction == <<"20240102 09:30:00", "500">>
BadTime == <<"2024-01-02T09:30:00">>

\* the strings strptime takes for "%Y%m%d %H:%M:%S" and for its "%f"
DateTimeStrings == {"20240102 09:30:00"}
FractionStrings == {"500"}

\* parse_datetime(s): strptime raises ValueError for a string that is not in
\* the format; the empty string is the time of the call
parse_datetime(s) ==
    IF Len(s) > 1
    THEN IF Len(s) = 2 /\ s[1] \in DateTimeStrings /\ s[2] \in FractionStrings
         THEN Returned(s) ELSE Raised("ValueError")
    ELSE IF s # EmptyStr
         THEN IF s[1] \in DateTimeStrings THEN Returned(s) ELSE Raised("ValueError")
         ELSE Returned(<<"now">>)

\* str(enum value), the way the request builders write enums on the wire
enum_str(e) == e

RECURSIVE GCD(_, _)
GCD(a, b) == IF b = 0 THEN a ELSE GCD(b, a % b)

\* x / SIZE as an exact rational in lowest terms
DivSize(x) ==
    LET g == GCD(x, SIZE)
    IN  <<x \div g, SIZE \div g>>

RatEq(a, b)  == a[1] * b[2] = b[1] * a[2]
RatLeq(a, b) == a[1] * b[2] <= b[1] * a[2]

(***************************************************************************)
(* Host events (BaseGateway.on_order/on_trade/on_quote/on_log/...) and     *)
(* vendor calls (TdApi methods), in the order the handler makes them       *)
(***************************************************************************)
\* a log event: the message and what it names (a vt_symbol, a price)
LogAbout(msg, about) == [kind |-> "log", msg |-> msg, about |-> about]
LogEvent(msg) == LogAbout(msg, <<>>)

OrderEvent(vt_orderid, gateway_name, traded, status) ==
    [kind |-> "order", vt_orderid |-> vt_orderid, gateway_name |-> gateway_name,
     traded |-> traded, status |-> status]

TradeEvent(vt_tradeid, gateway_name) ==
    [kind |-> "trade", vt_tradeid |-> vt_tradeid, gateway_name |-> gateway_name]

QuoteEvent(vt_quoteid, gateway_name, status) ==
    [kind |-> "quote", vt_quoteid |-> vt_quoteid, gateway_name |-> gateway_name,
     status |-> status]

\* the log messages, by the line that writes them
LOG_NO_SEPARATOR  == "split_symbol: no '_' in symbol"          \* line 309
LOG_BAD_SETTLE    == "split_symbol: settle type not T0/T1"     \* line 314
LOG_XBOND_TYPE    == "send_xbond_order: only LIMIT and FAK"    \* line 114
LOG_CFETS_TYPE    == "send_cfets_order: only FAK"              \* line 150
LOG_NO_QUOTE_INFO == "send_cfets_order: no quote info of vt_symbol"   \* line 164
LOG_NO_PRICE      == "send_cfets_order: no quote info at price"       \* line 173
LOG_ORDERS_DONE   == "on_all_orders: query done"               \* line 489
LOG_TRADES_DONE   == "on_all_trades: query done"               \* line 496
LOG_QUOTES_DONE   == "on_all_quotes: query done"               \* line 465

(***************************************************************************)
(* State                                                                   *)
(***************************************************************************)
VARIABLES
    gateway_name,   \* BaseGateway.gateway_name == UserApi.gateway_name
    configured,     \* whether connect() has set routing_type/valid_untile_time
    orders,         \* UserApi.orders: vt_orderid -> the last recorded order
    trades,         \* UserApi.trades: the vt_tradeids recorded (the dict's keys)
    quote_infos,    \* ComstarGateway.quote_infos: vt_symbol -> QuoteInfo
    op,             \* the last call made on the adapter, with its input
    host,           \* the events that call emitted to the host, in order
    vendor,         \* the vendor (TdApi) calls that call made, in order
    ret,            \* what that call returned, or the exception it raised
    trade_emits,    \* history: vt_tradeid -> host emissions so far (capped at 2)
    latest_ladders  \* history: vt_symbol -> the ladders the latest bilateral quote
                    \* tick delivered for the instrument quotes

vars == <<gateway_name, configured, orders, trades, quote_infos, op, host,
          vendor, ret, trade_emits, latest_ladders>>

\* d[k] = v added to (or replaced in) the dict d
Put(d, k, v) == [x \in DOMAIN d \cup {k} |-> IF x = k THEN v ELSE d[x]]

EmptyDict == [x \in {} |-> None]

Min(a, b) == IF a <= b THEN a ELSE b

\* no call is in progress on the adapter: calls are made one at a time
Idle == op.name = "idle"

(***************************************************************************)
(* Inbound payloads                                                        *)
(***************************************************************************)
Instruments == {"180406"}

\* data["gateway_name"] of a push
DataGatewayNames == GatewayNames
OrderIds == {"o1"}
TradeIds == {"t1", "t2"}
QuoteIds == {"q1"}

RawTraded == {k * SIZE : k \in 0..MaxTraded}

\* wire strings of a status field: three members, an unset enum (no dot),
\* an unknown member, an unknown category, and two dots
StatusWires ==
    {<<"Status", "SUBMITTING">>, <<"Status", "NOTTRADED">>, <<"Status", "ALLTRADED">>,
     <<"">>, <<"Status", "BOGUS">>}

DirectionWires == {<<"Direction", "LONG">>, <<"Direction", "LONG", "x">>}

\* the traded volume varies with the statuses on_order compares; a push with
\* another status has nothing traded
OrderPushes ==
    {p \in [gateway_name : DataGatewayNames, orderid : OrderIds,
             traded : RawTraded, status : StatusWires] :
        p.status \notin {<<"Status", "NOTTRADED">>, <<"Status", "ALLTRADED">>}
            => p.traded = 0}

TradePushes ==
    [gateway_name : DataGatewayNames, tradeid : TradeIds, direction : DirectionWires]

QuotePushes ==
    [gateway_name : DataGatewayNames, quoteid : QuoteIds, status : StatusWires]

\* a query reply carries the pushes of one gateway
OrderBatches(gw) == {p \in OrderPushes : p.gateway_name = gw /\ p.status # <<"">>}
TradeBatches(gw) == {p \in TradePushes : p.gateway_name = gw}
QuoteBatches(gw) == {p \in QuotePushes : p.gateway_name = gw}

\* the sequences over S of length 0..n
RECURSIVE SeqsUpTo(_, _)
SeqsUpTo(S, n) ==
    IF n = 0 THEN {<<>>}
    ELSE LET shorter == SeqsUpTo(S, n - 1)
         IN  shorter \cup {Append(q, x) : q \in {t \in shorter : Len(t) = n - 1}, x \in S}

(***************************************************************************)
(* UserApi.on_order                                                        *)
(***************************************************************************)
\* parse_order: the fields of OrderData the adapter reads, or the exception
\* enum_decode raises.  vt_orderid is f"{gateway_name}.{orderid}" of the
\* payload's own gateway_name (OrderData.__post_init__)
parse_order(data) ==
    LET status == enum_decode(data.status)
    IN  IF status.raised THEN status
        ELSE Returned([vt_orderid |-> <<data.gateway_name, data.orderid>>,
                       traded |-> data.traded,
                       status |-> status.value])

\* a filter that compares the status alone
order_is_repeat_status_only(ords, order) ==
    /\ order.vt_orderid \in DOMAIN ords
    /\ order.status = ords[order.vt_orderid].status

\* whether on_order drops the parsed and descaled order as a repeat of the
\* last recorded one
order_is_repeat(ords, order) ==
    /\ order.vt_orderid \in DOMAIN ords
    /\ RatEq(order.traded, ords[order.vt_orderid].traded)
    /\ order.status = ords[order.vt_orderid].status

\* an on_order that lets the status SUBMITTING through
UserApi_on_order_unfiltered(s, gw, data) ==
    LET parsed == parse_order(data)
    IN  IF parsed.raised THEN [s EXCEPT !.exc = parsed.value]
        ELSE LET order == [parsed.value EXCEPT !.traded = DivSize(parsed.value.traded)]
             IN  IF order_is_repeat(s.orders, order) THEN s
                 ELSE [s EXCEPT
                         !.orders = Put(s.orders, order.vt_orderid, order),
                         !.host = Append(s.host,
                                    OrderEvent(order.vt_orderid, gw, order.traded, order.status))]

\* one call of UserApi.on_order(data) on the state s = [orders, host, exc]
UserApi_on_order(s, gw, data) ==
    LET parsed == parse_order(data)
    IN  IF parsed.raised THEN [s EXCEPT !.exc = parsed.value]
        ELSE IF parsed.value.status = SUBMITTING THEN s
        ELSE LET order == [parsed.value EXCEPT !.traded = DivSize(parsed.value.traded)]
             IN  IF order_is_repeat(s.orders, order) THEN s
                 ELSE [s EXCEPT
                         !.orders = Put(s.orders, order.vt_orderid, order),
                         !.host = Append(s.host,
                                    OrderEvent(order.vt_orderid, gw, order.traded, order.status))]

\* for d in data: self.on_order(d)   (an exception ends the loop)
RECURSIVE on_all_orders_loop(_, _, _, _)
on_all_orders_loop(s, gw, data, i) ==
    IF i > Len(data) THEN s
    ELSE LET s1 == UserApi_on_order(s, gw, data[i])
         IN  IF s1.exc # None THEN s1 ELSE on_all_orders_loop(s1, gw, data, i + 1)

OrderState == [orders |-> orders, host |-> <<>>, exc |-> None]

Outcome(exc, value) == IF exc # None THEN Raised(exc[1]) ELSE Returned(value)

on_order(data) ==
    LET s == UserApi_on_order(OrderState, gateway_name, data)
    IN  /\ Idle
        /\ op' = [name |-> "on_order", arg |-> data]
        /\ orders' = s.orders
        /\ host' = s.host
        /\ vendor' = <<>>
        /\ ret' = Outcome(s.exc, None)
        /\ UNCHANGED <<gateway_name, configured, trades, quote_infos, trade_emits, latest_ladders>>

on_all_orders(data) ==
    LET s == on_all_orders_loop(OrderState, gateway_name, data, 1)
    IN  /\ Idle
        /\ op' = [name |-> "on_all_orders", arg |-> data]
        /\ orders' = s.orders
        /\ host' = IF s.exc # None THEN s.host ELSE Append(s.host, LogEvent(LOG_ORDERS_DONE))
        /\ vendor' = <<>>
        /\ ret' = Outcome(s.exc, None)
        /\ UNCHANGED <<gateway_name, configured, trades, quote_infos, trade_emits, latest_ladders>>

(***************************************************************************)
(* UserApi.on_trade                                                        *)
(***************************************************************************)
parse_trade(data) ==
    LET direction == enum_decode(data.direction)
    IN  IF direction.raised THEN direction
        ELSE Returned([vt_tradeid |-> <<data.gateway_name, data.tradeid>>,
                       direction |-> direction.value])

\* a filter that drops nothing
trade_is_repeat_never(trds, trade) == FALSE

\* whether on_trade drops the parsed trade as already recorded
trade_is_repeat(trds, trade) == trade.vt_tradeid \in trds

\* one call of UserApi.on_trade(data) on the state s = [trades, host, exc, emits]
UserApi_on_trade(s, gw, data) ==
    LET parsed == parse_trade(data)
    IN  IF parsed.raised THEN [s EXCEPT !.exc = parsed.value]
        ELSE LET trade == parsed.value
             IN  IF trade_is_repeat(s.trades, trade) THEN s
                 ELSE [s EXCEPT
                         !.trades = s.trades \cup {trade.vt_tradeid},
                         !.emits = Put(s.emits, trade.vt_tradeid,
                                       IF trade.vt_tradeid \in DOMAIN s.emits
                                       THEN Min(s.emits[trade.vt_tradeid] + 1, 2) ELSE 1),
                         !.host = Append(s.host, TradeEvent(trade.vt_tradeid, gw))]

RECURSIVE on_all_trades_loop(_, _, _, _)
on_all_trades_loop(s, gw, data, i) ==
    IF i > Len(data) THEN s
    ELSE LET s1 == UserApi_on_trade(s, gw, data[i])
         IN  IF s1.exc # None THEN s1 ELSE on_all_trades_loop(s1, gw, data, i + 1)

TradeState == [trades |-> trades, host |-> <<>>, exc |-> None, emits |-> trade_emits]

on_trade(data) ==
    LET s == UserApi_on_trade(TradeState, gateway_name, data)
    IN  /\ Idle
        /\ op' = [name |-> "on_trade", arg |-> data]
        /\ trades' = s.trades
        /\ trade_emits' = s.emits
        /\ host' = s.host
        /\ vendor' = <<>>
        /\ ret' = Outcome(s.exc, None)
        /\ UNCHANGED <<gateway_name, configured, orders, quote_infos, latest_ladders>>

on_all_trades(data) ==
    LET s == on_all_trades_loop(TradeState, gateway_name, data, 1)
    IN  /\ Idle
        /\ op' = [name |-> "on_all_trades", arg |-> data]
        /\ trades' = s.trades
        /\ trade_emits' = s.emits
        /\ host' = IF s.exc # None THEN s.host ELSE Append(s.host, LogEvent(LOG_TRADES_DONE))
        /\ vendor' = <<>>
        /\ ret' = Outcome(s.exc, None)
        /\ UNCHANGED <<gateway_name, configured, orders, quote_infos, latest_ladders>>

(***************************************************************************)
(* UserApi.on_quote                                                        *)
(***************************************************************************)
parse_quote(data) ==
    LET status == enum_decode(data.status)
    IN  IF status.raised THEN status
        ELSE Returned([vt_quoteid |-> <<data.gateway_name, data.quoteid>>,
                       status |-> status.value])

\* an on_quote that lets the status SUBMITTING through
UserApi_on_quote_unfiltered(s, gw, data) ==
    LET parsed == parse_quote(data)
    IN  IF parsed.raised THEN [s EXCEPT !.exc = parsed.value]
        ELSE [s EXCEPT !.host = Append(s.host,
                         QuoteEvent(parsed.value.vt_quoteid, gw, parsed.value.status))]

\* one call of UserApi.on_quote(data) on the state s = [host, exc]
UserApi_on_quote(s, gw, data) ==
    LET parsed == parse_quote(data)
    IN  IF parsed.raised THEN [s EXCEPT !.exc = parsed.value]
        ELSE IF parsed.value.status = SUBMITTING THEN s
        ELSE [s EXCEPT !.host = Append(s.host,
                         QuoteEvent(parsed.value.vt_quoteid, gw, parsed.value.status))]

RECURSIVE on_all_quotes_loop(_, _, _, _)
on_all_quotes_loop(s, gw, data, i) ==
    IF i > Len(data) THEN s
    ELSE LET s1 == UserApi_on_quote(s, gw, data[i])
         IN  IF s1.exc # None THEN s1 ELSE on_all_quotes_loop(s1, gw, data, i + 1)

QuoteState == [host |-> <<>>, exc |-> None]

on_quote(data) ==
    LET s == UserApi_on_quote(QuoteState, gateway_name, data)
    IN  /\ Idle
        /\ op' = [name |-> "on_quote", arg |-> data]
        /\ host' = s.host
        /\ vendor' = <<>>
        /\ ret' = Outcome(s.exc, None)
        /\ UNCHANGED <<gateway_name, configured, orders, trades, quote_infos,
                       trade_emits, latest_ladders>>

on_all_quotes(data) ==
    LET s == on_all_quotes_loop(QuoteState, gateway_name, data, 1)
    IN  /\ Idle
        /\ op' = [name |-> "on_all_quotes", arg |-> data]
        /\ host' = IF s.exc # None THEN s.host ELSE Append(s.host, LogEvent(LOG_QUOTES_DONE))
        /\ vendor' = <<>>
        /\ ret' = Outcome(s.exc, None)
        /\ UNCHANGED <<gateway_name, configured, orders, trades, quote_infos,
                       trade_emits, latest_ladders>>

(***************************************************************************)
(* ComstarGateway.split_symbol                                             *)
(***************************************************************************)
Tokens == {"180406", "T0", "T1", "T2"}

\* the strings split_symbol is given, as their "_"-separated parts
SymbolStrings == SeqsUpTo(Tokens, MaxParts) \ {<<>>}

\* the outcome of split_symbol with the log events it writes
SplitResult(outcome, logs) ==
    [raised |-> outcome.raised, value |-> outcome.value, logs |-> logs]

\* split_symbol(symbol): (new_symbol, settle_type), or None with a log, or the
\* ValueError of unpacking symbol.split("_") into two names
split_symbol(symbol) ==
    IF Len(symbol) <= 1                        \* "_" not in symbol
    THEN SplitResult(Returned(None), <<LogEvent(LOG_NO_SEPARATOR)>>)
    ELSE IF Len(symbol) # 2                    \* new_symbol, settle_type = ...
         THEN SplitResult(Raised("ValueError"), <<>>)
         ELSE IF symbol[2] \notin {"T0", "T1"}
              THEN SplitResult(Returned(None), <<LogEvent(LOG_BAD_SETTLE)>>)
              ELSE SplitResult(Returned(<<symbol[1], symbol[2]>>), <<>>)

(***************************************************************************)
(* Bilateral quote ticks: convert_quote_tick, parse_quote_tick, QuoteInfo  *)
(***************************************************************************)
\* range(1, 11) of convert_quote_tick
ConvertDepths == 10
\* range(1, 6) of QuoteInfo.update_info, and the depth levels of TickData
LadderLevels == 5
\* bid_price_1 .. bid_price_6 of an XBond depth payload
RawLevels == 6

\* the deepest level map of a bilateral quote-tick payload
MaxDepth == 6

\* one side of one level of qdmEspMarketDataLevelMap: cleanPrice, orderQty,
\* mdEntryTime, quoteEntryId, partyInfo.partyID; prices are in price ticks
NoSide == [present |-> FALSE, price |-> 0, volume |-> 0,
           time |-> None, quoteid |-> None, partyid |-> None]

\* the side quoted at a price by the update `tag`, at `depth`
Side(tag, side, depth, price) ==
    [present |-> TRUE, price |-> price, volume |-> depth * SIZE,
     time |-> <<"time", tag, side, depth>>,
     quoteid |-> <<"quoteid", tag, side, depth>>,
     partyid |-> <<"partyid", tag, side, depth>>]

Tags == {"A", "B"}

\* a level of the map: a depth the map lacks is a level with neither side
Level(bid, ask) == [bid |-> bid, ask |-> ask]

\* ladders of 0..MaxDepth levels, level i quoted on both sides at price i
LadderMaps ==
    {[i \in 1..n |-> Level(Side(tag, "bid", i, i), Side(tag, "ask", i, i))] :
        n \in 0..MaxDepth, tag \in Tags}

\* the sides a level of a small map has: none, a zero price, a price
SmallSides(tag, side, depth) ==
    {NoSide, Side(tag, side, depth, 0), Side(tag, side, depth, 1)}

SmallLevels(tag, depth) ==
    {Level(b, a) : b \in SmallSides(tag, "bid", depth), a \in SmallSides(tag, "ask", depth)}

\* maps of one and two levels with gaps, zero prices and repeated prices
SmallMaps ==
    UNION {{<<l1>> : l1 \in SmallLevels(tag, 1)} \cup
           {<<l1, l2>> : l1 \in SmallLevels(tag, 1), l2 \in SmallLevels(tag, 2)} :
           tag \in Tags}

LevelMaps == LadderMaps \cup SmallMaps

\* the maps quoted for the second instrument
OtherMaps == {m \in LadderMaps : Len(m) <= 1}

\* settlType of a quote-tick payload: "1" is T0, anything else T1
QuoteTick(securityId, settlType, level_map) ==
    [gateway_name |-> "COMSTAR-QUOTE", securityId |-> securityId,
     settlType |-> settlType, level_map |-> level_map, datetime |-> GoodTime]

QuoteTicks ==
    {QuoteTick(i, "1", m) : i \in Instruments, m \in LevelMaps} \cup
    {QuoteTick(i, "2", m) : i \in Instruments, m \in OtherMaps}

\* the loop of convert_quote_tick from depth i on: tick_data holds the flat
\* fields as bid/ask dicts depth -> side
RECURSIVE convert_loop(_, _, _)
convert_loop(tick_data, level_map, i) ==
    IF i > ConvertDepths THEN tick_data
    ELSE IF i > Len(level_map) \/ (~level_map[i].bid.present /\ ~level_map[i].ask.present)
         THEN tick_data                       \* if not d: break
         ELSE LET d  == level_map[i]
                  t1 == IF d.bid.present
                        THEN [tick_data EXCEPT !.bid = Put(tick_data.bid, i, d.bid)]
                        ELSE tick_data
                  t2 == IF d.ask.present
                        THEN [t1 EXCEPT !.ask = Put(t1.ask, i, d.ask)]
                        ELSE t1
              IN  convert_loop(t2, level_map, i + 1)

convert_quote_tick(data) ==
    convert_loop([datetime |-> data.datetime,
                  gateway_name |-> data.gateway_name,
                  symbol |-> data.securityId,
                  exchange |-> <<"Exchange", "CFETS">>,
                  settle_type |-> IF data.settlType = "1" THEN "T0" ELSE "T1",
                  bid |-> EmptyDict, ask |-> EmptyDict],
                 data.level_map, 1)

\* data.get(f"{side}_price_{i}", default) and its volume
GetPrice(side, i, default) == IF i \in DOMAIN side THEN side[i].price ELSE default
GetVolume(side, i, default) == IF i \in DOMAIN side THEN side[i].volume ELSE default

\* a loop that goes on past a level with no price
RECURSIVE update_info_loop_past_gaps(_, _, _)
update_info_loop_past_gaps(info, side, i) ==
    IF i > LadderLevels THEN info
    ELSE IF i \notin DOMAIN side \/ side[i].price = 0
         THEN update_info_loop_past_gaps(info, side, i + 1)
         ELSE update_info_loop_past_gaps(
                Put(info, side[i].price,
                    [time |-> side[i].time, quoteid |-> side[i].quoteid,
                     partyid |-> side[i].partyid]),
                side, i + 1)

\* one loop of QuoteInfo.update_info from level i on: it ends at the first
\* level with no price or a zero price
RECURSIVE update_info_loop(_, _, _)
update_info_loop(info, side, i) ==
    IF i > LadderLevels THEN info
    ELSE IF i \notin DOMAIN side \/ side[i].price = 0
         THEN info                            \* if not price: break
         ELSE update_info_loop(
                Put(info, side[i].price,
                    [time |-> side[i].time, quoteid |-> side[i].quoteid,
                     partyid |-> side[i].partyid]),
                side, i + 1)

\* QuoteInfo.update_info(data): both ladders are cleared and rebuilt
update_info(data) ==
    [bid_info |-> update_info_loop(EmptyDict, data.bid, 1),
     ask_info |-> update_info_loop(EmptyDict, data.ask, 1)]

\* an update_quote_info that leaves the cache as it is
update_quote_info_skipped(infos, vt_symbol, data) == infos

\* ComstarGateway.update_quote_info(vt_symbol, data)
update_quote_info(infos, vt_symbol, data) == Put(infos, vt_symbol, update_info(data))

\* round_to(value, 0.0001) of (a + b) / 2, prices in ticks of 0.0001:
\* Python's round() takes a half to the even neighbour
MidPrice(a, b) ==
    LET q == (a + b) \div 2
    IN  IF (a + b) % 2 = 0 THEN q ELSE IF q % 2 = 0 THEN q ELSE q + 1

\* parse_quote_tick(data): the TickData fields the adapter reads
parse_quote_tick(data) ==
    LET exchange == enum_decode(data.exchange)
        datetime == parse_datetime(data.datetime)
    IN  IF exchange.raised THEN exchange
        ELSE IF datetime.raised THEN datetime
        ELSE Returned(
               [symbol |-> <<data.symbol, data.settle_type>>,
                exchange |-> exchange.value,
                volume |-> 0,
                last_price |-> 0,
                bid_price  |-> [i \in 1..LadderLevels |-> GetPrice(data.bid, i, 0)],
                ask_price  |-> [i \in 1..LadderLevels |-> GetPrice(data.ask, i, 0)],
                bid_volume |-> [i \in 1..LadderLevels |-> GetVolume(data.bid, i, 0)],
                ask_volume |-> [i \in 1..LadderLevels |-> GetVolume(data.ask, i, 0)],
                public |-> None])

(***************************************************************************)
(* XBond depth ticks: parse_tick                                           *)
(***************************************************************************)
\* six raw levels, rising or falling
SixLevels == {[i \in 1..RawLevels |-> i], [i \in 1..RawLevels |-> RawLevels + 1 - i]}
SixVolumes(levels) == [i \in 1..RawLevels |-> levels[i] * SIZE]

ExchangeWires == {<<"Exchange", "XBOND">>, <<"Exchange", "BOGUS">>}

XbondTicks ==
    {[gateway_name |-> "COMSTAR", symbol |-> i, settle_type |-> "T0",
      datetime |-> GoodTimeFraction,
      exchange |-> e, volume |-> v, last_price |-> b[1],
      bid_price |-> b, ask_price |-> a,
      bid_volume |-> SixVolumes(a), ask_volume |-> SixVolumes(b)] :
        i \in Instruments, e \in ExchangeWires, v \in RawTraded,
        b \in SixLevels, a \in SixLevels}

\* a parse that takes level k of the tick from raw level k
parse_tick_unshifted(data) ==
    LET exchange == enum_decode(data.exchange)
        datetime == parse_datetime(data.datetime)
    IN  IF exchange.raised THEN exchange
        ELSE IF datetime.raised THEN datetime
        ELSE Returned(
               [symbol |-> <<data.symbol, data.settle_type>>,
                exchange |-> exchange.value,
                volume |-> data.volume,
                last_price |-> data.last_price,
                bid_price  |-> [i \in 1..LadderLevels |-> data.bid_price[i]],
                ask_price  |-> [i \in 1..LadderLevels |-> data.ask_price[i]],
                bid_volume |-> [i \in 1..LadderLevels |-> data.bid_volume[i]],
                ask_volume |-> [i \in 1..LadderLevels |-> data.ask_volume[i]],
                public |-> <<[bid_price |-> data.bid_price[1],
                              ask_price |-> data.ask_price[1],
                              bid_volume |-> data.bid_volume[1],
                              ask_volume |-> data.ask_volume[1]]>>])

\* parse_tick(data): levels 1-5 of the tick are raw levels 2-6, raw level 1
\* is kept as the public best price and volume
parse_tick(data) ==
    LET exchange == enum_decode(data.exchange)
        datetime == parse_datetime(data.datetime)
    IN  IF exchange.raised THEN exchange
        ELSE IF datetime.raised THEN datetime
        ELSE Returned(
               [symbol |-> <<data.symbol, data.settle_type>>,
                exchange |-> exchange.value,
                volume |-> data.volume,
                last_price |-> data.last_price,
                bid_price  |-> [i \in 1..LadderLevels |-> data.bid_price[i + 1]],
                ask_price  |-> [i \in 1..LadderLevels |-> data.ask_price[i + 1]],
                bid_volume |-> [i \in 1..LadderLevels |-> data.bid_volume[i + 1]],
                ask_volume |-> [i \in 1..LadderLevels |-> data.ask_volume[i + 1]],
                public |-> <<[bid_price |-> data.bid_price[1],
                              ask_price |-> data.ask_price[1],
                              bid_volume |-> data.bid_volume[1],
                              ask_volume |-> data.ask_volume[1]]>>])

(***************************************************************************)
(* UserApi.on_tick                                                         *)
(***************************************************************************)
\* tick.vt_symbol: f"{symbol}.{exchange.value}"; an absent exchange has no value
tick_vt_symbol(tick) ==
    <<tick.symbol, IF tick.exchange = None THEN "None" ELSE tick.exchange[2]>>

\* a tick whose traded volume is divided by half of SIZE
TickEvent_half_multiplier(tick, gw) ==
    [kind |-> "tick", vt_symbol |-> tick_vt_symbol(tick), gateway_name |-> gw,
     volume |-> DivSize(2 * tick.volume),
     last_price |-> tick.last_price,
     bid_price |-> tick.bid_price,
     ask_price |-> tick.ask_price,
     bid_volume |-> [i \in 1..LadderLevels |-> DivSize(tick.bid_volume[i])],
     ask_volume |-> [i \in 1..LadderLevels |-> DivSize(tick.ask_volume[i])],
     public |-> IF tick.public = None THEN None
                ELSE <<[tick.public[1] EXCEPT
                          !.bid_volume = DivSize(tick.public[1].bid_volume),
                          !.ask_volume = DivSize(tick.public[1].ask_volume)]>>]

\* lines 356-376: the volumes are divided by SIZE and the tick is emitted
TickEvent(tick, gw) ==
    [kind |-> "tick", vt_symbol |-> tick_vt_symbol(tick), gateway_name |-> gw,
     volume |-> DivSize(tick.volume),
     last_price |-> tick.last_price,
     bid_price |-> tick.bid_price,
     ask_price |-> tick.ask_price,
     bid_volume |-> [i \in 1..LadderLevels |-> DivSize(tick.bid_volume[i])],
     ask_volume |-> [i \in 1..LadderLevels |-> DivSize(tick.ask_volume[i])],
     public |-> IF tick.public = None THEN None
                ELSE <<[tick.public[1] EXCEPT
                          !.bid_volume = DivSize(tick.public[1].bid_volume),
                          !.ask_volume = DivSize(tick.public[1].ask_volume)]>>]

\* one call of UserApi.on_tick(data): [quote_infos, host, exc]
UserApi_on_tick(infos, gw, data) ==
    IF data.gateway_name = "COMSTAR-QUOTE"
    THEN LET converted_data == convert_quote_tick(data)
             parsed == parse_quote_tick(converted_data)
             tick  == parsed.value
             tick1 == IF tick.ask_price[1] # 0 /\ tick.bid_price[1] # 0
                      THEN [tick EXCEPT !.last_price =
                                MidPrice(tick.ask_price[1], tick.bid_price[1])]
                      ELSE tick
         IN  IF parsed.raised
             THEN [quote_infos |-> infos, host |-> <<>>, exc |-> parsed.value]
             ELSE [quote_infos |-> update_quote_info(infos, tick_vt_symbol(tick),
                                                     converted_data),
                   host |-> <<TickEvent(tick1, gw)>>,
                   exc |-> None]
    ELSE LET parsed == parse_tick(data)
         IN  IF parsed.raised
             THEN [quote_infos |-> infos, host |-> <<>>, exc |-> parsed.value]
             ELSE [quote_infos |-> infos, host |-> <<TickEvent(parsed.value, gw)>>,
                   exc |-> None]

\* the history after the tick data is delivered: a bilateral quote tick is now
\* the latest one of its instrument
Delivered(ladders, data) ==
    IF data.gateway_name = "COMSTAR-QUOTE"
    THEN LET converted_data == convert_quote_tick(data)
         IN  Put(ladders,
                 <<<<converted_data.symbol, converted_data.settle_type>>, "CFETS">>,
                 update_info(converted_data))
    ELSE ladders

on_tick(data) ==
    LET s == UserApi_on_tick(quote_infos, gateway_name, data)
    IN  /\ Idle
        /\ op' = [name |-> "on_tick", arg |-> data]
        /\ quote_infos' = s.quote_infos
        /\ latest_ladders' = Delivered(latest_ladders, data)
        /\ host' = s.host
        /\ vendor' = <<>>
        /\ ret' = Outcome(s.exc, None)
        /\ UNCHANGED <<gateway_name, configured, orders, trades, trade_emits>>

(***************************************************************************)
(* Outbound requests                                                       *)
(***************************************************************************)
SettleTokens == {"T0", "T1", "T2"}

\* the symbols of requests: an instrument followed by settlement tokens
ReqSymbols ==
    {sym \in SymbolStrings :
        /\ sym[1] \in Instruments
        /\ \A i \in 2..Len(sym) : sym[i] \in SettleTokens}

XBOND == Enum("Exchange", "XBOND")
CFETS == Enum("Exchange", "CFETS")
LONG  == Enum("Direction", "LONG")
SHORT == Enum("Direction", "SHORT")
LIMIT == Enum("OrderType", "LIMIT")
FAK   == Enum("OrderType", "FAK")
MARKET == Enum("OrderType", "MARKET")

\* req.vt_symbol: f"{symbol}.{exchange.value}"
vt_symbol_of(symbol, exchange) == <<symbol, exchange[2]>>

\* the ids the vendor's send_order / send_quote return
VendorIds == {"o1"}

\* the result of a call of the gateway: what it returns (or raises), the host
\* events and the vendor calls it makes
CallResult(outcome, h, v) == [ret |-> outcome, host |-> h, vendor |-> v]

VendorCall(name, data, gw) == [call |-> name, data |-> data, gateway_name |-> gw]

\* req.create_order_data(order_id, gateway_name): a new OrderData has status
\* SUBMITTING and traded 0; it is handed to BaseGateway.on_order
SubmittingOrder(gw, order_id) == OrderEvent(<<gw, order_id>>, gw, <<0, 1>>, SUBMITTING)

\* req.create_quote_data(quote_id, gateway_name): likewise for a quote
SubmittingQuote(gw, quote_id) == QuoteEvent(<<gw, quote_id>>, gw, SUBMITTING)

\* ComstarGateway.subscribe(req)
gateway_subscribe(gw, req) ==
    LET result == split_symbol(req.symbol)
    IN  IF result.raised THEN CallResult(Raised(result.value[1]), <<>>, <<>>)
        ELSE IF result.value = None THEN CallResult(Returned(None), result.logs, <<>>)
        ELSE LET data == [symbol |-> result.value[1],
                          exchange |-> enum_str(req.exchange),
                          settle_type |-> result.value[2],
                          vt_symbol |-> vt_symbol_of(req.symbol, req.exchange)]
             IN  CallResult(Returned(None), <<>>,
                    <<VendorCall(IF req.exchange = XBOND THEN "subscribe"
                                 ELSE "maker_subscribe", data, gw)>>)

\* ComstarGateway.send_xbond_order(req); order_id is what the vendor returns
send_xbond_order(gw, req, order_id) ==
    IF req.type \notin {LIMIT, FAK}
    THEN CallResult(Returned(EmptyStr), <<LogEvent(LOG_XBOND_TYPE)>>, <<>>)
    ELSE LET result == split_symbol(req.symbol)
         IN  IF result.raised THEN CallResult(Raised(result.value[1]), <<>>, <<>>)
             ELSE IF result.value = None THEN CallResult(Returned(EmptyStr), result.logs, <<>>)
             ELSE LET data == [symbol |-> result.value[1],
                               exchange |-> enum_str(req.exchange),
                               settle_type |-> result.value[2],
                               direction |-> enum_str(req.direction),
                               type |-> enum_str(req.type),
                               price |-> req.price,
                               volume |-> <<req.volume[1] * SIZE, req.volume[2]>>,
                               vt_symbol |-> vt_symbol_of(req.symbol, req.exchange)]
                  IN  CallResult(Returned(<<gw, order_id>>),
                                 <<SubmittingOrder(gw, order_id)>>,
                                 <<VendorCall("send_order", data, gw)>>)

\* dict.get(key, None) as a one-element sequence, or None for a missing key
Get(d, k) == IF k \in DOMAIN d THEN <<d[k]>> ELSE None

\* a conversion that rounds the scaled volume up
IntOf_ceiling(q) == (q[1] + q[2] - 1) \div q[2]

\* int(volume) of the scaled volume <<n, d>>
IntOf(q) == q[1] \div q[2]

\* a bilateral order sent without looking its price up
send_cfets_order_unchecked(gw, infos, req, order_id) == send_xbond_order(gw, req, order_id)

\* ComstarGateway.send_cfets_order(req); order_id is what the vendor returns
send_cfets_order(gw, infos, req, order_id) ==
    IF req.type \notin {FAK}
    THEN CallResult(Returned(EmptyStr), <<LogEvent(LOG_CFETS_TYPE)>>, <<>>)
    ELSE LET result == split_symbol(req.symbol)
         IN  IF result.raised THEN CallResult(Raised(result.value[1]), <<>>, <<>>)
             ELSE IF result.value = None
                  THEN CallResult(Returned(EmptyStr), result.logs, <<>>)
             ELSE LET vt_symbol  == vt_symbol_of(req.symbol, req.exchange)
                      volume     == <<req.volume[1] * SIZE, req.volume[2]>>
                      quote_info == Get(infos, vt_symbol)
                  IN  IF quote_info = None
                      THEN CallResult(Returned(EmptyStr),
                                      <<LogAbout(LOG_NO_QUOTE_INFO, <<vt_symbol>>)>>, <<>>)
                      ELSE LET info == IF req.direction = LONG
                                       THEN Get(quote_info[1].ask_info, req.price)
                                       ELSE Get(quote_info[1].bid_info, req.price)
                           IN  IF info = None
                               THEN CallResult(Returned(EmptyStr),
                                        <<LogAbout(LOG_NO_PRICE, <<vt_symbol, req.price>>)>>,
                                        <<>>)
                               ELSE LET data ==
                                          [symbol |-> result.value[1],
                                           exchange |-> enum_str(req.exchange),
                                           settle_type |-> result.value[2],
                                           direction |-> enum_str(req.direction),
                                           type |-> enum_str(req.type),
                                           price |-> req.price,
                                           volume |-> IntOf(volume),
                                           quoteId |-> info[1].quoteid,
                                           partyID |-> info[1].partyid,
                                           transactTime |-> info[1].time,
                                           vt_symbol |-> vt_symbol]
                                    IN  CallResult(Returned(<<gw, order_id>>),
                                                   <<SubmittingOrder(gw, order_id)>>,
                                                   <<VendorCall("maker_send_order", data, gw)>>)

\* a send_order that takes every order the XBOND way
gateway_send_order_all_xbond(gw, infos, req, order_id) == send_xbond_order(gw, req, order_id)

\* ComstarGateway.send_order(req)
gateway_send_order(gw, infos, req, order_id) ==
    IF req.exchange = XBOND
    THEN send_xbond_order(gw, req, order_id)
    ELSE send_cfets_order(gw, infos, req, order_id)

\* ComstarGateway.cancel_order(req)
gateway_cancel_order(gw, req) ==
    LET result == split_symbol(req.symbol)
    IN  IF result.raised THEN CallResult(Raised(result.value[1]), <<>>, <<>>)
        ELSE IF result.value = None THEN CallResult(Returned(None), result.logs, <<>>)
        ELSE LET data == [symbol |-> result.value[1],
                          exchange |-> enum_str(req.exchange),
                          settle_type |-> result.value[2],
                          orderid |-> req.orderid,
                          vt_symbol |-> vt_symbol_of(req.symbol, req.exchange)]
             IN  CallResult(Returned(None), <<>>, <<VendorCall("cancel_order", data, gw)>>)

\* ComstarGateway.send_quote(req); quote_id is what the vendor returns.
\* valid_untile_time and routing_type are attributes only connect() sets
gateway_send_quote(gw, conf, req, quote_id) ==
    LET result == split_symbol(req.symbol)
    IN  IF result.raised THEN CallResult(Raised(result.value[1]), <<>>, <<>>)
        ELSE IF result.value = None THEN CallResult(Returned(EmptyStr), result.logs, <<>>)
        ELSE IF ~conf THEN CallResult(Raised("AttributeError"), <<>>, <<>>)
        ELSE LET data == [symbol |-> result.value[1],
                          exchange |-> enum_str(req.exchange),
                          bid_settle_type |-> result.value[2],
                          ask_settle_type |-> result.value[2],
                          bid_price |-> req.bid_price,
                          ask_price |-> req.ask_price,
                          bid_volume |-> <<req.bid_volume[1] * SIZE, req.bid_volume[2]>>,
                          ask_volume |-> <<req.ask_volume[1] * SIZE, req.ask_volume[2]>>,
                          vt_symbol |-> vt_symbol_of(req.symbol, req.exchange)]
             IN  CallResult(Returned(<<gw, quote_id>>),
                            <<SubmittingQuote(gw, quote_id)>>,
                            <<VendorCall("maker_send_quote", data, gw)>>)

\* ComstarGateway.cancel_quote(req)
gateway_cancel_quote(gw, conf, req) ==
    LET result == split_symbol(req.symbol)
    IN  IF result.raised THEN CallResult(Raised(result.value[1]), <<>>, <<>>)
        ELSE IF result.value = None THEN CallResult(Returned(None), result.logs, <<>>)
        ELSE IF ~conf THEN CallResult(Raised("AttributeError"), <<>>, <<>>)
        ELSE LET data == [symbol |-> result.value[1],
                          exchange |-> enum_str(req.exchange),
                          settle_type |-> result.value[2],
                          orderid |-> req.orderid,
                          vt_symbol |-> vt_symbol_of(req.symbol, req.exchange)]
             IN  CallResult(Returned(None), <<>>, <<VendorCall("cancel_quote", data, gw)>>)

(***************************************************************************)
(* The requests of the host                                                *)
(***************************************************************************)
Exchanges == {XBOND, CFETS}

\* requested prices: two quoted ones and the price of a ladder's deepest level
ReqPrices == {1, 2, MaxDepth}

\* requested volumes in natural units, as rationals: one unit, and a volume
\* that is one and a half lots after scaling by SIZE
ReqVolumes == {<<1, 1>>, <<3, 2 * SIZE>>}

SubscribeRequests == [symbol : ReqSymbols, exchange : Exchanges]

OrderRequests ==
    [symbol : ReqSymbols, exchange : Exchanges, direction : {LONG, SHORT},
     type : {LIMIT, FAK, MARKET}, price : ReqPrices, volume : ReqVolumes]

CancelRequests == [symbol : ReqSymbols, exchange : Exchanges, orderid : OrderIds]

QuoteRequests ==
    [symbol : ReqSymbols, exchange : {CFETS}, bid_price : {1}, ask_price : {2},
     bid_volume : ReqVolumes, ask_volume : {<<1, 1>>}]

\* a call of the gateway that changes none of its state
Call(name, arg, result) ==
    /\ Idle
    /\ op' = [name |-> name, arg |-> arg]
    /\ host' = result.host
    /\ vendor' = result.vendor
    /\ ret' = result.ret
    /\ UNCHANGED <<gateway_name, configured, orders, trades, quote_infos, trade_emits, latest_ladders>>

subscribe(req) == Call("subscribe", req, gateway_subscribe(gateway_name, req))

send_order(req, order_id) ==
    Call("send_order", [req |-> req, id |-> order_id],
         gateway_send_order(gateway_name, quote_infos, req, order_id))

cancel_order(req) == Call("cancel_order", req, gateway_cancel_order(gateway_name, req))

send_quote(req, quote_id) ==
    Call("send_quote", [req |-> req, id |-> quote_id],
         gateway_send_quote(gateway_name, configured, req, quote_id))

cancel_quote(req) ==
    Call("cancel_quote", req, gateway_cancel_quote(gateway_name, configured, req))

\* ComstarGateway.connect(setting): the settings are kept and the vendor's
\* connect is called
connect ==
    /\ Idle
    /\ op' = [name |-> "connect", arg |-> None]
    /\ configured' = TRUE
    /\ host' = <<>>
    /\ vendor' = <<VendorCall("connect", None, gateway_name)>>
    /\ ret' = Returned(None)
    /\ UNCHANGED <<gateway_name, orders, trades, quote_infos, trade_emits, latest_ladders>>

(***************************************************************************)
(* UserApi.on_all_contracts                                                *)
(***************************************************************************)
LOG_CONTRACTS_DONE == "on_all_contracts: query done"           \* line 482

\* the instrument entries of a contract query reply.  The exchange and the
\* product are enum wire strings; min_volume is in the vendor's lot unit
ContractSymbols == {"180406", "200210"}
ContractExchangeWires == {<<"Exchange", "CFETS">>, <<"Exchange", "BOGUS">>}
ContractProductWires == {<<"Product", "BOND">>, <<"">>, <<"Prod", "BOND">>}

ContractEntries ==
    [gateway_name : {"COMSTAR"}, symbol : ContractSymbols,
     exchange : ContractExchangeWires, product : ContractProductWires,
     size : {1}, min_volume : {SIZE}]

ContractEvent(symbol, exchange, gw, product, size, min_volume) ==
    [kind |-> "contract", symbol |-> symbol, exchange |-> exchange,
     vt_symbol |-> <<symbol, exchange[2]>>, gateway_name |-> gw,
     product |-> product, size |-> size, min_volume |-> min_volume]

\* parse_contract(data, settle_type): the symbol is f"{symbol}_{settle_type}"
parse_contract(data, settle_type) ==
    LET exchange == enum_decode(data.exchange)
        product  == enum_decode(data.product)
    IN  IF exchange.raised THEN exchange
        ELSE IF product.raised THEN product
        ELSE Returned([symbol |-> <<data.symbol, settle_type>>,
                       exchange |-> exchange.value,
                       product |-> product.value,
                       size |-> data.size,
                       min_volume |-> data.min_volume,
                       gateway_name |-> data.gateway_name])

\* for settle_type in ("T0", "T1"): for exchange in (XBOND, CFETS)
SettleExchanges == <<<<"T0", XBOND>>, <<"T0", CFETS>>, <<"T1", XBOND>>, <<"T1", CFETS>>>>

\* the body of the two inner loops for the entry d, from their j-th turn, on
\* the state s = [host, exc]
RECURSIVE contracts_of_entry(_, _, _, _)
contracts_of_entry(s, gw, d, j) ==
    IF j > Len(SettleExchanges) THEN s
    ELSE LET parsed == parse_contract(d, SettleExchanges[j][1])
         IN  IF parsed.raised THEN [s EXCEPT !.exc = parsed.value]
             ELSE LET contract == parsed.value
                  IN  contracts_of_entry(
                          [s EXCEPT !.host =
                              Append(s.host,
                                  ContractEvent(contract.symbol, SettleExchanges[j][2], gw,
                                                contract.product, contract.size * SIZE,
                                                DivSize(contract.min_volume)))],
                          gw, d, j + 1)

\* for d in data: ...   (an exception ends the loop)
RECURSIVE on_all_contracts_loop(_, _, _, _)
on_all_contracts_loop(s, gw, data, i) ==
    IF i > Len(data) THEN s
    ELSE LET s1 == contracts_of_entry(s, gw, data[i], 1)
         IN  IF s1.exc # None THEN s1 ELSE on_all_contracts_loop(s1, gw, data, i + 1)

on_all_contracts(data) ==
    LET s == on_all_contracts_loop([host |-> <<>>, exc |-> None], gateway_name, data, 1)
    IN  /\ Idle
        /\ op' = [name |-> "on_all_contracts", arg |-> data]
        /\ host' = IF s.exc # None THEN s.host
                   ELSE Append(s.host, LogEvent(LOG_CONTRACTS_DONE))
        /\ vendor' = <<>>
        /\ ret' = Outcome(s.exc, None)
        /\ UNCHANGED <<gateway_name, configured, orders, trades, quote_infos, trade_emits, latest_ladders>>

(***************************************************************************)
(* Session callbacks: on_login, on_disconnected; query_all and close       *)
(***************************************************************************)
LOG_LOGIN_OK     == "on_login: login succeeded"
LOG_LOGIN_FAILED == "on_login: login failed"

\* a vendor method called without arguments
VendorQuery(name) == [call |-> name, data |-> None, gateway_name |-> ""]

\* ComstarGateway.query_all(): the four queries in the order they are made
query_all ==
    <<VendorQuery("get_all_contracts"), VendorQuery("get_all_orders"),
      VendorQuery("get_all_trades"), VendorQuery("get_all_quotes")>>

\* UserApi.on_login(data): an adapter named "COMSTAR-QUOTE" calls
\* gateway.maker_query_all(), a method ComstarGateway does not have
UserApi_on_login(gw, data) ==
    IF data.status
    THEN IF gw = "COMSTAR-QUOTE"
         THEN CallResult(Raised("AttributeError"), <<>>, <<>>)
         ELSE CallResult(Returned(None), <<LogEvent(LOG_LOGIN_OK)>>, query_all)
    ELSE CallResult(Returned(None), <<LogEvent(LOG_LOGIN_FAILED)>>, <<>>)

\* an on_disconnected that connects again
UserApi_on_disconnected_reconnect(reason) ==
    CallResult(Returned(None), <<LogEvent(reason)>>, <<VendorQuery("connect")>>)

\* UserApi.on_disconnected(reason): the reason is written to the log
UserApi_on_disconnected(reason) ==
    CallResult(Returned(None), <<LogEvent(reason)>>, <<>>)

\* ComstarGateway.close(): the vendor's close is called
gateway_close == CallResult(Returned(None), <<>>, <<VendorQuery("close")>>)

LoginReplies == [status : BOOLEAN]
DisconnectReasons == {"connection lost"}

on_login(data) == Call("on_login", data, UserApi_on_login(gateway_name, data))

\* a disconnect that forgets the recorded orders and trades
on_disconnected_forgetting(reason) ==
    /\ Idle
    /\ op' = [name |-> "on_disconnected", arg |-> reason]
    /\ host' = UserApi_on_disconnected(reason).host
    /\ vendor' = <<>>
    /\ ret' = Returned(None)
    /\ orders' = EmptyDict
    /\ trades' = {}
    /\ UNCHANGED <<gateway_name, configured, quote_infos, trade_emits, latest_ladders>>

on_disconnected(reason) == Call("on_disconnected", reason, UserApi_on_disconnected(reason))

close == Call("close", None, gateway_close)

(***************************************************************************)
(* Callbacks delivered on two threads.  The handlers take no lock: between  *)
(* the lookup in the dict, the assignment to it and the call of the gateway *)
(* another thread may run.  op.arg holds each thread's place and locals     *)
(***************************************************************************)
Threads == {1, 2}

\* a thread entering on_order / on_trade with its payload
Entering(kind, data) == [kind |-> kind, pc |-> "check", data |-> data, item |-> None]

\* on_order up to the lookup of last_order and the comparison with it
order_check(th, ords) ==
    LET parsed == parse_order(th.data)
    IN  IF parsed.raised \/ parsed.value.status = SUBMITTING
        THEN [th EXCEPT !.pc = "done"]
        ELSE LET order == [parsed.value EXCEPT !.traded = DivSize(parsed.value.traded)]
             IN  IF order_is_repeat(ords, order) THEN [th EXCEPT !.pc = "done"]
                 ELSE [th EXCEPT !.pc = "record", !.item = <<order>>]

\* on_trade up to the membership test
trade_check(th, trds) ==
    LET parsed == parse_trade(th.data)
    IN  IF parsed.raised \/ trade_is_repeat(trds, parsed.value)
        THEN [th EXCEPT !.pc = "done"]
        ELSE [th EXCEPT !.pc = "record", !.item = <<parsed.value>>]

\* two pushes of one kind arrive, each on its own thread
deliver_concurrently(kind, d1, d2) ==
    /\ Idle
    /\ op' = [name |-> "concurrent", arg |-> <<Entering(kind, d1), Entering(kind, d2)>>]
    /\ host' = <<>>
    /\ vendor' = <<>>
    /\ ret' = Returned(None)
    /\ UNCHANGED <<gateway_name, configured, orders, trades, quote_infos, trade_emits, latest_ladders>>

\* thread t runs up to its next access of shared state
thread_step(t) ==
    /\ op.name = "concurrent"
    /\ LET th == op.arg[t]
       IN  \/ /\ th.pc = "check"
              /\ op' = [op EXCEPT !.arg[t] =
                          IF th.kind = "order" THEN order_check(th, orders)
                          ELSE trade_check(th, trades)]
              /\ UNCHANGED <<orders, trades, host, trade_emits>>
           \/ /\ th.pc = "record"
              /\ op' = [op EXCEPT !.arg[t].pc = "emit"]
              /\ orders' = IF th.kind = "order"
                           THEN Put(orders, th.item[1].vt_orderid, th.item[1])
                           ELSE orders
              /\ trades' = IF th.kind = "trade"
                           THEN trades \cup {th.item[1].vt_tradeid}
                           ELSE trades
              /\ UNCHANGED <<host, trade_emits>>
           \/ /\ th.pc = "emit"
              /\ op' = [op EXCEPT !.arg[t].pc = "done"]
              /\ host' = Append(host,
                           IF th.kind = "order"
                           THEN OrderEvent(th.item[1].vt_orderid, gateway_name,
                                           th.item[1].traded, th.item[1].status)
                           ELSE TradeEvent(th.item[1].vt_tradeid, gateway_name))
              /\ trade_emits' =
                   IF th.kind = "trade"
                   THEN Put(trade_emits, th.item[1].vt_tradeid,
                            IF th.item[1].vt_tradeid \in DOMAIN trade_emits
                            THEN Min(trade_emits[th.item[1].vt_tradeid] + 1, 2) ELSE 1)
                   ELSE trade_emits
              /\ UNCHANGED <<orders, trades>>
    /\ UNCHANGED <<gateway_name, configured, quote_infos, vendor, ret, latest_ladders>>

\* both threads have left their handlers
threads_return ==
    /\ op.name = "concurrent"
    /\ \A t \in Threads : op.arg[t].pc = "done"
    /\ op' = [name |-> "idle", arg |-> None]
    /\ host' = <<>>
    /\ vendor' = <<>>
    /\ ret' = Returned(None)
    /\ UNCHANGED <<gateway_name, configured, orders, trades, quote_infos,
                   trade_emits, latest_ladders>>

(***************************************************************************)
(* A bilateral send-order on one thread while on_tick updates the quote    *)
(* cache on another.  update_info clears and refills each ladder in place,  *)
(* one dict operation at a time, and no lock is taken                       *)
(***************************************************************************)
\* a QuoteInfo as its constructor leaves it
NewQuoteInfo == [bid_info |-> EmptyDict, ask_info |-> EmptyDict]

\* the place of update_quote_info: "enter", then for each side <<side, 0>>
\* (the clear) and <<side, i>> (the i-th turn of its loop), then "done"
\* one step of it on the cache infos, for the converted tick data
update_step(infos, vt_symbol, data, pc) ==
    IF pc = <<"enter", 0>>
    THEN [infos |-> IF vt_symbol \in DOMAIN infos THEN infos
                    ELSE Put(infos, vt_symbol, NewQuoteInfo),
          pc |-> <<"bid", 0>>]
    ELSE LET side  == IF pc[1] = "bid" THEN data.bid ELSE data.ask
             after == IF pc[1] = "bid" THEN <<"ask", 0>> ELSE <<"done", 0>>
             i     == pc[2]
             info  == infos[vt_symbol]
             write(ladder) ==
                 Put(infos, vt_symbol,
                     IF pc[1] = "bid" THEN [info EXCEPT !.bid_info = ladder]
                     ELSE [info EXCEPT !.ask_info = ladder])
             ladder == IF pc[1] = "bid" THEN info.bid_info ELSE info.ask_info
         IN  IF i = 0 THEN [infos |-> write(EmptyDict), pc |-> <<pc[1], 1>>]
             ELSE IF i > LadderLevels \/ i \notin DOMAIN side \/ side[i].price = 0
                  THEN [infos |-> infos, pc |-> after]
                  ELSE [infos |-> write(Put(ladder, side[i].price,
                                            [time |-> side[i].time,
                                             quoteid |-> side[i].quoteid,
                                             partyid |-> side[i].partyid])),
                        pc |-> <<pc[1], i + 1>>]

\* a quote tick and a bilateral order arrive together: op.arg holds the tick,
\* the place of its update, the cache as it was, the order and its result
race_begin(data, req, order_id) ==
    /\ Idle
    /\ op' = [name |-> "race",
              arg |-> [tick |-> data, pc |-> <<"enter", 0>>, before |-> quote_infos,
                       req |-> req, id |-> order_id, sent |-> FALSE]]
    /\ host' = <<>>
    /\ vendor' = <<>>
    /\ ret' = Returned(None)
    /\ latest_ladders' = Delivered(latest_ladders, data)
    /\ UNCHANGED <<gateway_name, configured, orders, trades, quote_infos, trade_emits>>

\* the updating thread does its next dict operation
race_update ==
    /\ op.name = "race"
    /\ op.arg.pc # <<"done", 0>>
    /\ LET converted_data == convert_quote_tick(op.arg.tick)
           vt_symbol == tick_vt_symbol(parse_quote_tick(converted_data).value)
           s == update_step(quote_infos, vt_symbol, converted_data, op.arg.pc)
       IN  /\ quote_infos' = s.infos
           /\ op' = [op EXCEPT !.arg.pc = s.pc]
    /\ UNCHANGED <<gateway_name, configured, orders, trades, host, vendor, ret, trade_emits, latest_ladders>>

\* the ordering thread runs send_order against the cache as it is now
race_order ==
    /\ op.name = "race"
    /\ ~op.arg.sent
    /\ LET result == gateway_send_order(gateway_name, quote_infos, op.arg.req, op.arg.id)
       IN  /\ host' = result.host
           /\ vendor' = result.vendor
           /\ ret' = result.ret
    /\ op' = [op EXCEPT !.arg.sent = TRUE]
    /\ UNCHANGED <<gateway_name, configured, orders, trades, quote_infos, trade_emits, latest_ladders>>

\* both threads are through
race_return ==
    /\ op.name = "race"
    /\ op.arg.pc = <<"done", 0>>
    /\ op.arg.sent
    /\ op' = [name |-> "idle", arg |-> None]
    /\ host' = <<>>
    /\ vendor' = <<>>
    /\ ret' = Returned(None)
    /\ UNCHANGED <<gateway_name, configured, orders, trades, quote_infos,
                   trade_emits, latest_ladders>>

(***************************************************************************)
(* A send-order on the host's thread while the transport's thread delivers *)
(* order pushes.  send_xbond_order and send_cfets_order call the vendor,   *)
(* which returns the order id, and emit the SUBMITTING snapshot afterwards; *)
(* no lock is held between the two                                          *)
(***************************************************************************)
\* the host calls send_order with a request that passes validation: the
\* vendor's method is called and returns the order id.  op.arg holds the
\* thread's place and the result it has still to deliver
submit_begin(req, order_id) ==
    LET result == gateway_send_order(gateway_name, quote_infos, req, order_id)
    IN  /\ Idle
        /\ result.vendor # <<>>
        /\ op' = [name |-> "submit",
                  arg |-> [req |-> req, id |-> order_id, pc |-> "snapshot",
                           result |-> result, pushes |-> 0]]
        /\ host' = <<>>
        /\ vendor' = result.vendor
        /\ ret' = Returned(None)
        /\ UNCHANGED <<gateway_name, configured, orders, trades, quote_infos,
                       trade_emits, latest_ladders>>

\* the host's thread goes on: the snapshot is emitted and the id returned
submit_snapshot ==
    /\ op.name = "submit"
    /\ op.arg.pc = "snapshot"
    /\ op' = [op EXCEPT !.arg.pc = "done"]
    /\ host' = host \o op.arg.result.host
    /\ ret' = op.arg.result.ret
    /\ UNCHANGED <<gateway_name, configured, orders, trades, quote_infos, vendor,
                   trade_emits, latest_ladders>>

\* the most pushes delivered during one send-order
MaxPushes == 2

\* the transport's thread delivers a push of the order the vendor has just
\* been given: on_order runs on that thread
submit_push(data) ==
    LET s == UserApi_on_order([orders |-> orders, host |-> host, exc |-> None],
                              gateway_name, data)
    IN  /\ op.name = "submit"
        /\ op.arg.pushes < MaxPushes
        /\ data.orderid = op.arg.id
        /\ op' = [op EXCEPT !.arg.pushes = @ + 1]
        /\ orders' = s.orders
        /\ host' = s.host
        /\ UNCHANGED <<gateway_name, configured, trades, quote_infos, vendor, ret,
                       trade_emits, latest_ladders>>

\* send_order has returned
submit_return ==
    /\ op.name = "submit"
    /\ op.arg.pc = "done"
    /\ op' = [name |-> "idle", arg |-> None]
    /\ host' = <<>>
    /\ vendor' = <<>>
    /\ ret' = Returned(None)
    /\ UNCHANGED <<gateway_name, configured, orders, trades, quote_infos,
                   trade_emits, latest_ladders>>

(***************************************************************************)
(* Specification                                                           *)
(***************************************************************************)
Init ==
    /\ gateway_name \in GatewayNames
    /\ configured = FALSE
    /\ orders = EmptyDict
    /\ trades = {}
    /\ quote_infos = EmptyDict
    /\ op = [name |-> "idle", arg |-> None]
    /\ host = <<>>
    /\ vendor = <<>>
    /\ ret = Returned(None)
    /\ trade_emits = EmptyDict
    /\ latest_ladders = EmptyDict

\* the call returns: its caller takes the result, the host's event engine and
\* the vendor API take what the call handed them
Return ==
    /\ ~Idle
    /\ op' = [name |-> "idle", arg |-> None]
    /\ host' = <<>>
    /\ vendor' = <<>>
    /\ ret' = Returned(None)
    /\ UNCHANGED <<gateway_name, configured, orders, trades, quote_infos,
                   trade_emits, latest_ladders>>

\* a few quote ticks, enough for a bilateral order to find its price
FewQuoteTicks == {QuoteTick(i, "1", m) : i \in Instruments, m \in OtherMaps}

\* order requests with a two-part symbol
TwoPartOrders == {req \in OrderRequests : Len(req.symbol) = 2}

\* of these, the orders of one unit at the first price
UnitOrders == {req \in TwoPartOrders : req.price = 1 /\ req.volume = <<1, 1>>}

\* the order pushes, and the orders the host sends
NextOrders ==
    \/ \E data \in OrderPushes : on_order(data)
    \/ \E gw \in DataGatewayNames :
          \E data \in SeqsUpTo(OrderBatches(gw), MaxBatch) : on_all_orders(data)
    \/ \E req \in UnitOrders, id \in VendorIds : send_order(req, id)
    \/ Return

SpecOrders == Init /\ [][NextOrders]_vars

\* the trade pushes
NextTrades ==
    \/ \E data \in TradePushes : on_trade(data)
    \/ \E gw \in DataGatewayNames :
          \E data \in SeqsUpTo(TradeBatches(gw), MaxBatch) : on_all_trades(data)
    \/ Return

SpecTrades == Init /\ [][NextTrades]_vars

\* the quote pushes, and the quotes the host sends
NextQuotes ==
    \/ \E data \in QuotePushes : on_quote(data)
    \/ \E gw \in DataGatewayNames :
          \E data \in SeqsUpTo(QuoteBatches(gw), MaxBatch) : on_all_quotes(data)
    \/ connect
    \/ \E req \in QuoteRequests, id \in QuoteIds : send_quote(req, id)
    \/ Return

SpecQuotes == Init /\ [][NextQuotes]_vars

\* the ticks, and the bilateral orders sent against the quote book
NextQuoteBook ==
    \/ \E data \in QuoteTicks \cup XbondTicks : on_tick(data)
    \/ \E req \in {r \in TwoPartOrders : r.exchange = CFETS}, id \in VendorIds :
          send_order(req, id)
    \/ Return

SpecQuoteBook == Init /\ [][NextQuoteBook]_vars

\* the requests of the host
NextOutbound ==
    \/ connect
    \/ \E data \in FewQuoteTicks : on_tick(data)
    \/ \E req \in SubscribeRequests : subscribe(req)
    \/ \E req \in OrderRequests, id \in VendorIds : send_order(req, id)
    \/ \E req \in CancelRequests : cancel_order(req)
    \/ \E req \in QuoteRequests, id \in QuoteIds : send_quote(req, id)
    \/ \E req \in CancelRequests : cancel_quote(req)
    \/ Return

SpecOutbound == Init /\ [][NextOutbound]_vars

\* the pushes and query replies of the adapter's own gateway name
OwnOrderPushes == {p \in OrderPushes : p.gateway_name = "COMSTAR"}
OwnTradePushes == {p \in TradePushes : p.gateway_name = "COMSTAR"}

\* a session: connect, login, the replies to the queries, pushes, requests,
\* disconnect and close
NextSession ==
    \/ connect
    \/ \E data \in LoginReplies : on_login(data)
    \/ \E reason \in DisconnectReasons : on_disconnected(reason)
    \/ close
    \/ \E data \in OwnOrderPushes : on_order(data)
    \/ \E data \in SeqsUpTo(OrderBatches("COMSTAR"), MaxBatch) : on_all_orders(data)
    \/ \E data \in OwnTradePushes : on_trade(data)
    \/ \E data \in SeqsUpTo(TradeBatches("COMSTAR"), MaxBatch) : on_all_trades(data)
    \/ \E req \in {r \in SubscribeRequests : Len(r.symbol) = 2} : subscribe(req)
    \/ \E req \in {r \in UnitOrders : r.exchange = XBOND}, id \in VendorIds : send_order(req, id)
    \/ \E req \in {r \in CancelRequests : Len(r.symbol) = 2} : cancel_order(req)
    \/ \E req \in {r \in QuoteRequests : Len(r.symbol) = 2 /\ r.bid_volume = <<1, 1>>},
          id \in QuoteIds : send_quote(req, id)
    \/ \E req \in {r \in CancelRequests : Len(r.symbol) = 2} : cancel_quote(req)
    \/ Return

SpecSession == Init /\ [][NextSession]_vars

\* pushes delivered two at a time on two threads
NextThreads ==
    \/ \E d1 \in OwnOrderPushes, d2 \in OwnOrderPushes : deliver_concurrently("order", d1, d2)
    \/ \E d1 \in OwnTradePushes, d2 \in OwnTradePushes : deliver_concurrently("trade", d1, d2)
    \/ \E t \in Threads : thread_step(t)
    \/ threads_return

SpecThreads == Init /\ [][NextThreads]_vars

\* the maps of the ticks that race with an order: ladders of up to two levels
RaceTicks == {QuoteTick(i, "1", m) : i \in Instruments, m \in {x \in LadderMaps : Len(x) <= 2}}

\* bilateral FAK orders of one unit
RaceOrders == {r \in TwoPartOrders : r.exchange = CFETS /\ r.type = FAK /\ r.volume = <<1, 1>>}

\* quote ticks, alone or together with a bilateral order
NextLadderRace ==
    \/ \E data \in RaceTicks : on_tick(data)
    \/ Return
    \/ \E data \in RaceTicks, req \in RaceOrders, id \in VendorIds : race_begin(data, req, id)
    \/ race_update
    \/ race_order
    \/ race_return

SpecLadderRace == Init /\ [][NextLadderRace]_vars

\* the replies to the contract query
NextContracts ==
    \/ \E data \in SeqsUpTo(ContractEntries, MaxBatch) : on_all_contracts(data)
    \/ Return

SpecContracts == Init /\ [][NextContracts]_vars

\* the feed of both markets: bilateral quote ticks of two instruments, with
\* timestamps strptime takes and one it does not, XBond ticks, and one push of
\* each other kind
FeedMaps(n) == {m \in LadderMaps : Len(m) <= n}

FeedQuoteTicks ==
    {x \in {[QuoteTick(i, settlType, m) EXCEPT !.datetime = t] :
               i \in Instruments, settlType \in {"1", "2"},
               t \in {GoodTime, BadTime}, m \in FeedMaps(2)} :
        x.settlType = "2" => Len(x.level_map) <= 1}

FeedXbondTicks ==
    {x \in XbondTicks : x.volume = SIZE /\ x.ask_price = x.bid_price
                        /\ x.exchange = <<"Exchange", "XBOND">>}

FeedOrderPushes == {p \in OwnOrderPushes : p.status = <<"Status", "ALLTRADED">> /\ p.traded = SIZE}
FeedTradePushes == {p \in OwnTradePushes : p.tradeid = "t1" /\ p.direction = <<"Direction", "LONG">>}
FeedQuotePushes ==
    {p \in QuotePushes : p.gateway_name = "COMSTAR" /\ p.status = <<"Status", "ALLTRADED">>}

NextQuoteFeed ==
    \/ \E data \in FeedQuoteTicks \cup FeedXbondTicks : on_tick(data)
    \/ \E data \in FeedOrderPushes : on_order(data)
    \/ \E data \in FeedTradePushes : on_trade(data)
    \/ \E data \in FeedQuotePushes : on_quote(data)
    \/ \E req \in RaceOrders, id \in VendorIds : send_order(req, id)
    \/ Return

SpecQuoteFeed == Init /\ [][NextQuoteFeed]_vars

\* send-orders of both markets with order pushes arriving meanwhile
NextSubmit ==
    \/ \E data \in FewQuoteTicks : on_tick(data)
    \/ Return
    \/ \E req \in UnitOrders, id \in VendorIds : submit_begin(req, id)
    \/ submit_snapshot
    \/ \E data \in OwnOrderPushes : submit_push(data)
    \/ submit_return

SpecSubmit == Init /\ [][NextSubmit]_vars

\* split_symbol on every string, through subscribe
NextSymbol ==
    \/ \E sym \in SymbolStrings, e \in Exchanges :
          subscribe([symbol |-> sym, exchange |-> e])
    \/ Return

SpecSymbol == Init /\ [][NextSymbol]_vars

\* every call of the adapter
Next ==
    \/ \E data \in LoginReplies : on_login(data)
    \/ \E reason \in DisconnectReasons : on_disconnected(reason)
    \/ close
    \/ \E data \in OrderPushes : on_order(data)
    \/ \E gw \in DataGatewayNames :
          \E data \in SeqsUpTo(OrderBatches(gw), MaxBatch) : on_all_orders(data)
    \/ \E data \in TradePushes : on_trade(data)
    \/ \E gw \in DataGatewayNames :
          \E data \in SeqsUpTo(TradeBatches(gw), MaxBatch) : on_all_trades(data)
    \/ \E data \in QuotePushes : on_quote(data)
    \/ \E gw \in DataGatewayNames :
          \E data \in SeqsUpTo(QuoteBatches(gw), MaxBatch) : on_all_quotes(data)
    \/ \E data \in QuoteTicks \cup XbondTicks : on_tick(data)
    \/ \E data \in SeqsUpTo(ContractEntries, MaxBatch) : on_all_contracts(data)
    \/ connect
    \/ \E req \in SubscribeRequests : subscribe(req)
    \/ \E req \in OrderRequests, id \in VendorIds : send_order(req, id)
    \/ \E req \in CancelRequests : cancel_order(req)
    \/ \E req \in QuoteRequests, id \in QuoteIds : send_quote(req, id)
    \/ \E req \in CancelRequests : cancel_quote(req)
    \/ Return

Spec == Init /\ [][Next]_vars

(***************************************************************************)
(* Properties of the order filter                                          *)
(***************************************************************************)
\* the pushes a call handed to the handler: the one push of on_order, or the
\* elements of a batch
PushesOf(o) == IF o.name \in {"on_order", "on_trade", "on_quote"} THEN <<o.arg>> ELSE o.arg

OrderEventsOf(h) == SelectSeq(h, LAMBDA e : e.kind = "order")
TradeEventsOf(h) == SelectSeq(h, LAMBDA e : e.kind = "trade")
QuoteEventsOf(h) == SelectSeq(h, LAMBDA e : e.kind = "quote")

\* the number of leading elements of a batch the loop handles before an element
\* whose enum field does not decode ends it
Handled(batch, field(_)) ==
    CHOOSE n \in 0..Len(batch) :
        /\ \A i \in 1..n : ~enum_decode(field(batch[i])).raised
        /\ n < Len(batch) => enum_decode(field(batch[n + 1])).raised

StatusOf(d) == d.status
DirectionOf(d) == d.direction

\* the i-th smallest element of a set of numbers
Nth(S, i) == CHOOSE x \in S : Cardinality({y \in S : y < x}) = i - 1

OrderKey(d) == <<d.gateway_name, d.orderid>>

\* the pushes of a batch that reach the repeat filter: handled, and not
\* filtered as SUBMITTING
ReachFilter(batch) ==
    {i \in 1..Handled(batch, StatusOf) : enum_decode(batch[i].status).value # SUBMITTING}

\* the push before i, of the same order id, among the pushes `reach` that
\* reached the filter (0: none)
PrevPush(batch, reach, i) ==
    LET before == {j \in reach : j < i /\ OrderKey(batch[j]) = OrderKey(batch[i])}
    IN  IF before = {} THEN 0 ELSE CHOOSE j \in before : \A k \in before : k <= j

\* push i repeats the last recorded push of its order id: the same traded
\* volume and the same status
RepeatsRecorded(batch, reach, ords, i) ==
    LET d == batch[i]
        j == PrevPush(batch, reach, i)
    IN  IF j # 0
        THEN /\ batch[j].traded = d.traded
             /\ enum_decode(batch[j].status).value = enum_decode(d.status).value
        ELSE /\ OrderKey(d) \in DOMAIN ords
             /\ ords[OrderKey(d)].traded[1] * SIZE = d.traded * ords[OrderKey(d)].traded[2]
             /\ ords[OrderKey(d)].status = enum_decode(d.status).value

\* the pushes of a batch that are not dropped (reach is bound to its value
\* once)
Surfaced(batch, ords) ==
    UNION {{i \in reach : ~RepeatsRecorded(batch, reach, ords, i)} :
              reach \in {ReachFilter(batch)}}

\* the order event e is push d as the host is to see it
IsEventOf(e, d, gw) ==
    /\ e.vt_orderid = OrderKey(d)
    /\ e.gateway_name = gw
    /\ e.traded[1] * SIZE = d.traded * e.traded[2]
    /\ e.status = enum_decode(d.status).value

\* the recorded order r is push d
IsRecordOf(r, d) ==
    /\ r.vt_orderid = OrderKey(d)
    /\ r.traded[1] * SIZE = d.traded * r.traded[2]
    /\ r.status = enum_decode(d.status).value

\* C1: of the pushes that reach the filter, in the order delivered, exactly
\* those are dropped whose traded volume and status both equal the last
\* recorded push of their order id; every other one (no recorded push, or a
\* different traded volume or status) is emitted to the host and becomes the
\* recorded push of its order id
C1_RepeatSuppressedIff ==
    [][op'.name \in {"on_order", "on_all_orders"} =>
        \A batch \in {PushesOf(op')} :
        \A out \in {Surfaced(batch, orders)} :
        \A events \in {OrderEventsOf(host')} :
            /\ Len(events) = Cardinality(out)
            /\ \A r \in 1..Len(events) :
                  \E i \in out : /\ Cardinality({j \in out : j < i}) = r - 1
                                 /\ IsEventOf(events[r], batch[i], gateway_name)
            /\ DOMAIN orders' = DOMAIN orders \cup {OrderKey(batch[i]) : i \in out}
            /\ \A k \in DOMAIN orders' :
                  \A mine \in {{i \in out : OrderKey(batch[i]) = k}} :
                      IF mine = {} THEN orders'[k] = orders[k]
                      ELSE \E i \in mine : /\ \A j \in mine : j <= i
                                           /\ IsRecordOf(orders'[k], batch[i])
    ]_vars

\* C1 witness: a batch of two identical pushes was delivered and only one
\* order event went to the host
C1_Witness ==
    /\ op.name = "on_all_orders"
    /\ Len(op.arg) = 2
    /\ op.arg[1] = op.arg[2]
    /\ op.arg[1].status = <<"Status", "ALLTRADED">>
    /\ Len(OrderEventsOf(host)) = 1
    /\ ret = Returned(None)

\* the traded volumes of these order events never decrease, starting from the
\* recorded order of their id when there is one
NonDecreasingFrom(ords, events) ==
    \A r \in 1..Len(events) :
        /\ \A q \in 1..(r - 1) :
              events[q].vt_orderid = events[r].vt_orderid
                  => RatLeq(events[q].traded, events[r].traded)
        /\ events[r].vt_orderid \in DOMAIN ords
              => RatLeq(ords[events[r].vt_orderid].traded, events[r].traded)

\* C8: across the pushes of a call, and from the order last surfaced before
\* it, the traded volume of the surfaced order events of an order id never
\* decreases
C8_TradedNeverDecreases ==
    [][op'.name \in {"on_order", "on_all_orders"}
          => NonDecreasingFrom(orders, OrderEventsOf(host'))]_vars

\* C5 as stated: no order event the host receives has the status SUBMITTING
C5_NoSubmittingOrderSurfaced ==
    \A i \in 1..Len(host) : host[i].kind = "order" => host[i].status # SUBMITTING

\* C5 amended: no order push of the vendor (on_order, or an element of
\* on_all_orders) is surfaced with the status SUBMITTING; the only order events
\* with that status are the snapshots send_order itself emits for the order it
\* has just submitted
C5_SubmittingOnlyFromSendOrder ==
    \A i \in 1..Len(host) :
        (host[i].kind = "order" /\ host[i].status = SUBMITTING)
            => /\ op.name = "send_order"
               /\ host = <<SubmittingOrder(gateway_name, op.arg.id)>>
               /\ Len(vendor) = 1

\* C5 witness: the vendor pushed an order with the status SUBMITTING and the
\* host received nothing
C5_Witness ==
    /\ op.name = "on_order"
    /\ op.arg.status = <<"Status", "SUBMITTING">>
    /\ host = <<>>
    /\ ret = Returned(None)

(***************************************************************************)
(* Properties of the trade filter                                          *)
(***************************************************************************)
TradeKey(d) == <<d.gateway_name, d.tradeid>>

\* the pushes of a batch that are the first of a trade id not yet recorded
FirstOfNewTrade(batch, trds) ==
    {i \in 1..Handled(batch, DirectionOf) :
        /\ TradeKey(batch[i]) \notin trds
        /\ \A j \in 1..(i - 1) : TradeKey(batch[j]) # TradeKey(batch[i])}

\* C2: a call surfaces exactly the pushes that are the first of a trade id not
\* yet recorded, once each and in the order delivered, and records their ids;
\* every other push surfaces nothing; over the whole life of the adapter no
\* trade id is surfaced more than once
C2_TradeSurfacedOnce ==
    [][op'.name \in {"on_trade", "on_all_trades"} =>
        LET batch  == PushesOf(op')
            new    == FirstOfNewTrade(batch, trades)
            events == TradeEventsOf(host')
        IN  /\ Len(events) = Cardinality(new)
            /\ \A r \in 1..Len(events) :
                  /\ events[r].vt_tradeid = TradeKey(batch[Nth(new, r)])
                  /\ events[r].gateway_name = gateway_name
            /\ trades' = trades \cup {TradeKey(batch[i]) : i \in new}
            /\ \A k \in DOMAIN trade_emits' : trade_emits'[k] <= 1
    ]_vars

\* C2 witness: a trade already recorded was pushed again and the host received
\* nothing
C2_Witness ==
    /\ op.name = "on_trade"
    /\ TradeKey(op.arg) \in trades
    /\ ret = Returned(None)
    /\ host = <<>>
    /\ trade_emits[TradeKey(op.arg)] = 1

(***************************************************************************)
(* Properties of the quote filter                                          *)
(***************************************************************************)
\* C6 as stated: no quote event the host receives has the status SUBMITTING
C6_NoSubmittingQuoteSurfaced ==
    \A i \in 1..Len(host) : host[i].kind = "quote" => host[i].status # SUBMITTING

\* C6 amended: no quote push of the vendor (on_quote, or an element of
\* on_all_quotes) is surfaced with the status SUBMITTING; the only quote events
\* with that status are the snapshots send_quote itself emits for the quote it
\* has just submitted
C6_SubmittingOnlyFromSendQuote ==
    \A i \in 1..Len(host) :
        (host[i].kind = "quote" /\ host[i].status = SUBMITTING)
            => /\ op.name = "send_quote"
               /\ host = <<SubmittingQuote(gateway_name, op.arg.id)>>
               /\ Len(vendor) = 1

\* C6 witness: the vendor pushed a quote with the status SUBMITTING and the
\* host received nothing
C6_Witness ==
    /\ op.name = "on_quote"
    /\ op.arg.status = <<"Status", "SUBMITTING">>
    /\ host = <<>>
    /\ ret = Returned(None)

(***************************************************************************)
(* Properties of the quote book                                            *)
(***************************************************************************)
\* the call in progress is a bilateral send-order
IsCfetsOrder == op.name = "send_order" /\ op.arg.req.exchange = CFETS

\* the instrument key of a request
ReqKey(req) == <<req.symbol, req.exchange[2]>>

\* the request's price is in no cached ladder of its instrument
PriceInNoLadder(req) ==
    \/ ReqKey(req) \notin DOMAIN quote_infos
    \/ /\ req.price \notin DOMAIN quote_infos[ReqKey(req)].bid_info
       /\ req.price \notin DOMAIN quote_infos[ReqKey(req)].ask_info

\* the request's price is not in the ladder of the side it takes: the ask
\* ladder for a LONG order, the bid ladder for any other
PriceNotOnSide(req) ==
    \/ ReqKey(req) \notin DOMAIN quote_infos
    \/ req.direction = LONG /\ req.price \notin DOMAIN quote_infos[ReqKey(req)].ask_info
    \/ req.direction # LONG /\ req.price \notin DOMAIN quote_infos[ReqKey(req)].bid_info

\* the call logged exactly one reason, naming the instrument (no quote tick
\* was received) or the instrument and the price
LoggedMissingPrice(req) ==
    \/ /\ ReqKey(req) \notin DOMAIN quote_infos
       /\ host = <<LogAbout(LOG_NO_QUOTE_INFO, <<ReqKey(req)>>)>>
    \/ /\ ReqKey(req) \in DOMAIN quote_infos
       /\ host = <<LogAbout(LOG_NO_PRICE, <<ReqKey(req), req.price>>)>>

Rejected == ret = Returned(EmptyStr) /\ vendor = <<>> /\ OrderEventsOf(host) = <<>>

TickKey(data) == <<<<data.securityId, IF data.settlType = "1" THEN "T0" ELSE "T1">>, "CFETS">>

IsQuoteTick(o) == o.name = "on_tick" /\ o.arg.gateway_name = "COMSTAR-QUOTE"

\* one side of a level of a level map
SideOf(level, side) == IF side = "bid" THEN level.bid ELSE level.ask

LadderOf(info, side) == IF side = "bid" THEN info.bid_info ELSE info.ask_info

MetaOf(s) == [time |-> s.time, quoteid |-> s.quoteid, partyid |-> s.partyid]

\* the levels 1 to 5 of a map that carry a price on a side
Priced(level_map, side) ==
    {i \in 1..Min(LadderLevels, Len(level_map)) :
        SideOf(level_map[i], side).present /\ SideOf(level_map[i], side).price # 0}

\* the leading run of them: the levels before the first one without a price
LeadingRun(level_map, side) ==
    {i \in Priced(level_map, side) : \A j \in 1..i : j \in Priced(level_map, side)}

\* C4 as stated: after a bilateral quote tick each ladder of its instrument
\* holds exactly the prices at levels 1 to 5 of the tick, each with the time,
\* quote id and counterparty id of its level
C4_LadderHoldsAllLevels ==
    IsQuoteTick(op) =>
        \A side \in {"bid", "ask"} :
            LET m      == op.arg.level_map
                ladder == LadderOf(quote_infos[TickKey(op.arg)], side)
            IN  /\ DOMAIN ladder = {SideOf(m[i], side).price : i \in Priced(m, side)}
                /\ \A i \in Priced(m, side) :
                      ladder[SideOf(m[i], side).price] = MetaOf(SideOf(m[i], side))

\* C4 amended: a bilateral quote tick rebuilds both ladders of its instrument
\* from the leading run of levels, among 1 to 5, that carry a non-zero price on
\* that side: the ladder holds exactly the prices of that run, each with the
\* time, quote id and counterparty id of the deepest level of the run quoting
\* that price; a level after the first level without a price is not cached;
\* every price cached before and not in the run is gone; the ladders of other
\* instruments are untouched
C4_LadderHoldsLeadingRun ==
    [][IsQuoteTick(op') =>
        /\ DOMAIN quote_infos' = DOMAIN quote_infos \cup {TickKey(op'.arg)}
        /\ \A k \in DOMAIN quote_infos : k # TickKey(op'.arg) => quote_infos'[k] = quote_infos[k]
        /\ \A side \in {"bid", "ask"} :
              LET m      == op'.arg.level_map
                  run    == LeadingRun(m, side)
                  ladder == LadderOf(quote_infos'[TickKey(op'.arg)], side)
              IN  /\ DOMAIN ladder = {SideOf(m[i], side).price : i \in run}
                  /\ \A p \in DOMAIN ladder :
                        LET at == {i \in run : SideOf(m[i], side).price = p}
                        IN  ladder[p] = MetaOf(SideOf(m[Nth(at, Cardinality(at))], side))
    ]_vars

\* C4 witness: a quote tick of more than five levels, each quoted on both
\* sides, was received and the ladders hold the prices of levels 1 to 5 with
\* the quote ids of their levels
C4_Witness ==
    /\ IsQuoteTick(op)
    /\ Len(op.arg.level_map) > LadderLevels
    /\ DOMAIN quote_infos[TickKey(op.arg)].bid_info = 1..LadderLevels
    /\ DOMAIN quote_infos[TickKey(op.arg)].ask_info = 1..LadderLevels
    /\ \A i \in 1..LadderLevels :
          quote_infos[TickKey(op.arg)].bid_info[i].quoteid = op.arg.level_map[i].bid.quoteid

(***************************************************************************)
(* Properties of the outbound requests                                     *)
(***************************************************************************)
\* a symbol of the form <instrument>_T0 or <instrument>_T1
WellFormed(symbol) == Len(symbol) = 2 /\ symbol[2] \in {"T0", "T1"}

\* the request of the call in progress
ReqOf(o) == IF o.name \in {"send_order", "send_quote"} THEN o.arg.req ELSE o.arg

\* a send-order or send-quote request that passes the adapter's validation:
\* the order type its market takes, a well-formed symbol and, for a bilateral
\* order, a price in the ladder of the side it takes
PassesValidation(o) ==
    /\ WellFormed(o.arg.req.symbol)
    /\ (o.name = "send_order" /\ o.arg.req.exchange = XBOND)
          => o.arg.req.type \in {LIMIT, FAK}
    /\ (o.name = "send_order" /\ o.arg.req.exchange # XBOND)
          => (o.arg.req.type = FAK /\ ~PriceNotOnSide(o.arg.req))

\* the one snapshot with the status SUBMITTING a submission emits
SnapshotOf(o) ==
    IF o.name = "send_order" THEN SubmittingOrder(gateway_name, o.arg.id)
    ELSE SubmittingQuote(gateway_name, o.arg.id)

\* C7: a send-order or send-quote request that passes validation calls the
\* vendor's submission method once, emits one SUBMITTING snapshot of the new
\* order or quote and returns <adapter name>.<vendor id>
C7_SubmissionEmitsSnapshot ==
    (op.name \in {"send_order", "send_quote"} /\ PassesValidation(op))
        => /\ Len(vendor) = 1
           /\ vendor[1].call \in {"send_order", "maker_send_order", "maker_send_quote"}
           /\ host = <<SnapshotOf(op)>>
           /\ ret = Returned(<<gateway_name, op.arg.id>>)

\* C9: a request on any outbound path whose symbol fails validation calls no
\* vendor method and returns the empty result
C9_BadSymbolNoVendorCall ==
    (/\ op.name \in {"subscribe", "send_order", "cancel_order", "send_quote", "cancel_quote"}
     /\ ~WellFormed(ReqOf(op).symbol))
        => /\ vendor = <<>>
           /\ ret \in {Returned(None), Returned(EmptyStr)}

\* C10: for a string that is not of the form <instrument>_T0 or
\* <instrument>_T1, split_symbol returns None, logs one message and does not
\* raise
C10_MalformedSymbolReturnsNone ==
    (op.name = "subscribe" /\ ~WellFormed(op.arg.symbol))
        => LET result == split_symbol(op.arg.symbol)
           IN  /\ ~result.raised
               /\ result.value = None
               /\ Len(result.logs) = 1
               /\ ret = Returned(None)
               /\ host = result.logs

(***************************************************************************)
(* Properties of the order-type check                                      *)
(***************************************************************************)
\* the order types a market takes
TypesOf(exchange) == IF exchange = XBOND THEN {LIMIT, FAK} ELSE {FAK}

\* C11: a send-order of a type its market does not take (other than LIMIT or
\* FAK on XBOND, other than FAK on the bilateral market) logs one reason,
\* returns the empty identifier, calls no vendor method and emits no order
\* snapshot; a send-order that calls the vendor has a type its market takes
C11_OtherOrderTypeRejected ==
    op.name = "send_order" =>
        /\ op.arg.req.type \notin TypesOf(op.arg.req.exchange)
              => /\ Rejected
                 /\ host = <<LogEvent(IF op.arg.req.exchange = XBOND
                                      THEN LOG_XBOND_TYPE ELSE LOG_CFETS_TYPE)>>
        /\ vendor # <<>> => op.arg.req.type \in TypesOf(op.arg.req.exchange)

\* C11 witness: a LIMIT order on the bilateral market was rejected with the
\* order-type reason
C11_Witness ==
    /\ IsCfetsOrder
    /\ op.arg.req.type = LIMIT
    /\ WellFormed(op.arg.req.symbol)
    /\ host = <<LogEvent(LOG_CFETS_TYPE)>>
    /\ Rejected

(***************************************************************************)
(* Properties of the bilateral order quantity                              *)
(***************************************************************************)
\* the requested volume <<n, d>> times SIZE is not a whole number
FractionalLots(req) == (req.volume[1] * SIZE) % req.volume[2] # 0

\* v is the scaled volume of the request with its fraction cut off
IsTruncation(v, req) ==
    /\ v * req.volume[2] <= req.volume[1] * SIZE
    /\ req.volume[1] * SIZE < (v + 1) * req.volume[2]

IsXbondTick(o) == o.name = "on_tick" /\ o.arg.gateway_name # "COMSTAR-QUOTE"

\* the emitted volume q is the raw volume x in natural units
IsDescaled(q, x) == q[1] * SIZE = x * q[2]

\* C13: for an XBond depth payload with raw levels 1 to 6 on both sides, level
\* k of the emitted tick is raw level k + 1 for k = 1..5 (its price, and its
\* volume in natural units), raw level 1 is not what level 1 shows, and the
\* public best price and volume of the tick are raw level 1
C13_LevelsShiftedByOne ==
    (IsXbondTick(op) /\ ~ret.raised) =>
        /\ Len(host) = 1
        /\ host[1].kind = "tick"
        /\ \A k \in 1..LadderLevels :
              /\ host[1].bid_price[k] = op.arg.bid_price[k + 1]
              /\ host[1].ask_price[k] = op.arg.ask_price[k + 1]
              /\ IsDescaled(host[1].bid_volume[k], op.arg.bid_volume[k + 1])
              /\ IsDescaled(host[1].ask_volume[k], op.arg.ask_volume[k + 1])
        /\ op.arg.bid_price[1] # op.arg.bid_price[2]
              => host[1].bid_price[1] # op.arg.bid_price[1]
        /\ op.arg.ask_price[1] # op.arg.ask_price[2]
              => host[1].ask_price[1] # op.arg.ask_price[1]
        /\ host[1].public # None
        /\ host[1].public[1].bid_price = op.arg.bid_price[1]
        /\ host[1].public[1].ask_price = op.arg.ask_price[1]
        /\ IsDescaled(host[1].public[1].bid_volume, op.arg.bid_volume[1])
        /\ IsDescaled(host[1].public[1].ask_volume, op.arg.ask_volume[1])

\* C13 witness: a payload with bid prices 1 to 6 was received and the tick
\* shows 2 to 6 as its levels and 1 as the public best bid
C13_Witness ==
    /\ IsXbondTick(op)
    /\ op.arg.bid_price = <<1, 2, 3, 4, 5, 6>>
    /\ Len(host) = 1
    /\ host[1].bid_price = <<2, 3, 4, 5, 6>>
    /\ host[1].public[1].bid_price = 1

(***************************************************************************)
(* Properties of the session callbacks                                     *)
(***************************************************************************)
\* the places of a vendor method in the calls of one handler
PlacesOf(name) == {i \in 1..Len(vendor) : vendor[i].call = name}

\* C14: on a login success the adapter queries the contracts first and the
\* trades only after the orders and the quotes
C14_QueriesInOrder ==
    (op.name = "on_login" /\ op.arg.status) =>
        /\ ~ret.raised
        /\ Len(vendor) = 4
        /\ vendor[1].call = "get_all_contracts"
        /\ \A t \in PlacesOf("get_all_trades") :
              /\ \E o \in PlacesOf("get_all_orders") : o < t
              /\ \E q \in PlacesOf("get_all_quotes") : q < t

\* the call is a login failure or a disconnect
IsSessionLoss(o) ==
    \/ o.name = "on_disconnected"
    \/ o.name = "on_login" /\ ~o.arg.status

QueryNames == {"get_all_contracts", "get_all_orders", "get_all_trades", "get_all_quotes"}

\* C15: a login failure or a disconnect writes one log event and nothing
\* else: no vendor method is called (no query, no connect) and the adapter's
\* state is unchanged; the queries are issued by a login success alone and the
\* vendor's connect by a connect request alone
C15_SessionLossOnlyLogs ==
    [][/\ IsSessionLoss(op') =>
            /\ vendor' = <<>>
            /\ Len(host') = 1
            /\ host'[1].kind = "log"
            /\ ~ret'.raised
            /\ UNCHANGED <<gateway_name, configured, orders, trades, quote_infos>>
       /\ \A i \in 1..Len(vendor') :
            /\ vendor'[i].call \in QueryNames => (op'.name = "on_login" /\ op'.arg.status)
            /\ vendor'[i].call = "connect" => op'.name = "connect"
    ]_vars

\* C15 witness: after a connect request the login failed, and the adapter
\* wrote the failure to the log and called nothing
C15_Witness ==
    /\ op.name = "on_login"
    /\ ~op.arg.status
    /\ configured
    /\ host = <<LogEvent(LOG_LOGIN_FAILED)>>
    /\ vendor = <<>>

(***************************************************************************)
(* Properties under concurrent callbacks                                   *)
(***************************************************************************)
\* C16: with two pushes handled on two threads, two trade pushes of one trade
\* id produce at most one trade event, no trade id is ever surfaced twice, and
\* two order pushes with the same order id, traded volume and status produce
\* at most one order event
C16_ConcurrentPushesSurfaceOnce ==
    /\ \A k \in DOMAIN trade_emits : trade_emits[k] <= 1
    /\ (/\ op.name = "concurrent"
        /\ op.arg[1].kind = "trade"
        /\ TradeKey(op.arg[1].data) = TradeKey(op.arg[2].data))
          => Len(TradeEventsOf(host)) <= 1
    /\ (/\ op.name = "concurrent"
        /\ op.arg[1].kind = "order"
        /\ op.arg[1].data = op.arg[2].data)
          => Len(OrderEventsOf(host)) <= 1

\* the ladder of the side an order takes, in a cache
SideLadder(infos, req) ==
    IF ReqKey(req) \notin DOMAIN infos THEN EmptyDict
    ELSE IF req.direction = LONG THEN infos[ReqKey(req)].ask_info
    ELSE infos[ReqKey(req)].bid_info

\* the cache after the update of a tick on the cache infos
UpdatedBy(infos, data) ==
    update_quote_info(infos, TickKey(data), convert_quote_tick(data))

\* C17: a bilateral send-order that runs while a quote tick of its instrument
\* is being applied, at a price that is in the ladder of its side both before
\* and after the update, is not rejected: it reaches the vendor
C17_OrderSeesWholeLadder ==
    (/\ op.name = "race"
     /\ op.arg.sent
     /\ TickKey(op.arg.tick) = ReqKey(op.arg.req)
     /\ op.arg.req.price \in DOMAIN SideLadder(op.arg.before, op.arg.req)
     /\ op.arg.req.price \in DOMAIN SideLadder(UpdatedBy(op.arg.before, op.arg.tick),
                                               op.arg.req))
        => /\ Len(vendor) = 1
           /\ ret = Returned(<<gateway_name, op.arg.id>>)

(***************************************************************************)
(* Properties of the retention of recorded orders and trades               *)
(***************************************************************************)
\* every element of a query reply re-delivers the recorded state of its order
AllOrdersRecorded(batch, ords) ==
    \A i \in 1..Len(batch) :
        /\ ~enum_decode(batch[i].status).raised
        /\ OrderKey(batch[i]) \in DOMAIN ords
        /\ IsRecordOf(ords[OrderKey(batch[i])], batch[i])

\* every element of a query reply re-delivers a recorded trade
AllTradesRecorded(batch, trds) ==
    \A i \in 1..Len(batch) :
        /\ ~enum_decode(batch[i].direction).raised
        /\ TradeKey(batch[i]) \in trds

\* C18: no step of a session (connect, login, disconnect, close, a push, a
\* query reply, an outbound request) removes a recorded order or trade; an
\* on_all_orders reply whose elements all re-deliver the recorded state of
\* their order, and an on_all_trades reply whose elements are all recorded
\* trades, emit no order or trade event, raise nothing and write only the
\* log line that the query is done
C18_RecordedStateRetained ==
    [][/\ DOMAIN orders \subseteq DOMAIN orders'
       /\ trades \subseteq trades'
       /\ (op'.name = "on_all_orders" /\ AllOrdersRecorded(op'.arg, orders))
            => /\ host' = <<LogEvent(LOG_ORDERS_DONE)>>
               /\ ~ret'.raised
               /\ orders' = orders
       /\ (op'.name = "on_all_trades" /\ AllTradesRecorded(op'.arg, trades))
            => /\ host' = <<LogEvent(LOG_TRADES_DONE)>>
               /\ ~ret'.raised
               /\ trades' = trades
               /\ trade_emits' = trade_emits
    ]_vars

\* C18 witness: after a connect, with an order recorded, an on_all_trades
\* reply re-delivered two recorded trades and only the log line came out
C18_Witness ==
    /\ op.name = "on_all_trades"
    /\ configured
    /\ Len(op.arg) = 2
    /\ TradeKey(op.arg[1]) # TradeKey(op.arg[2])
    /\ AllTradesRecorded(op.arg, trades)
    /\ DOMAIN orders # {}
    /\ host = <<LogEvent(LOG_TRADES_DONE)>>

(***************************************************************************)
(* Properties of a request that fails validation                           *)
(***************************************************************************)
OutboundNames == {"subscribe", "send_order", "cancel_order", "send_quote", "cancel_quote"}

\* the request of the call o fails the adapter's validation: its symbol is
\* not well-formed or, for a send-order, its type is not one its market takes
\* or its price is not in the ladder of the side it takes
FailsValidation(o) ==
    IF o.name \in {"send_order", "send_quote"} THEN ~PassesValidation(o)
    ELSE ~WellFormed(o.arg.symbol)

\* C19: an outbound request that fails validation leaves the recorded orders,
\* the recorded trades and the quote cache as they were, emits no order and
\* no quote to the host and returns without raising
C19_FailedRequestChangesNothing ==
    [][(op'.name \in OutboundNames /\ FailsValidation(op'))
          => /\ UNCHANGED <<orders, trades, quote_infos>>
             /\ OrderEventsOf(host') = <<>>
             /\ QuoteEventsOf(host') = <<>>
             /\ ~ret'.raised
    ]_vars

(***************************************************************************)
(* Properties of the decoding of enum wire strings                         *)
(***************************************************************************)
\* the enum wire string of a push: the status of an order or a quote, the
\* direction of a trade
WireOf(d) == IF "status" \in DOMAIN d THEN d.status ELSE d.direction

\* a wire string with more than one dot, an unknown category or an unknown
\* member
Malformed(s) ==
    \/ Len(s) > 2
    \/ Len(s) = 2 /\ (s[1] \notin DOMAIN VN_ENUMS \/ s[2] \notin VN_ENUMS[s[1]])

PushNames == {"on_order", "on_trade", "on_quote"}
BatchNames == {"on_all_orders", "on_all_trades", "on_all_quotes"}

\* the log line a batch reply writes after its loop
DoneLogs ==
    {LogEvent(LOG_ORDERS_DONE), LogEvent(LOG_TRADES_DONE), LogEvent(LOG_QUOTES_DONE)}

\* C20: a push whose enum wire string is malformed is decoded to the absent
\* value and its callback does not raise; a batch reply that holds such a
\* push goes through all of its elements: every order of the batch whose
\* status decodes and is not SUBMITTING is recorded, and the reply writes its
\* completion log
C20_MalformedEnumIsAbsent ==
    \A batch \in {IF op.name \in PushNames \cup BatchNames THEN PushesOf(op) ELSE <<>>} :
        (\E i \in 1..Len(batch) : Malformed(WireOf(batch[i])))
            => /\ \A i \in 1..Len(batch) :
                     Malformed(WireOf(batch[i]))
                        => enum_decode(WireOf(batch[i])) = Returned(None)
               /\ ~ret.raised
               /\ op.name \in BatchNames
                     => /\ host # <<>>
                        /\ host[Len(host)] \in DoneLogs
               /\ op.name = "on_all_orders"
                     => \A i \in 1..Len(batch) :
                           (/\ ~Malformed(batch[i].status)
                            /\ enum_decode(batch[i].status).value # SUBMITTING)
                              => OrderKey(batch[i]) \in DOMAIN orders

(***************************************************************************)
(* Properties of the contract query reply                                  *)
(***************************************************************************)
ContractEventsOf(h) == SelectSeq(h, LAMBDA e : e.kind = "contract")

\* the contract events of a reply that are of entry d, settlement speed st and
\* exchange ex
ContractsFor(h, d, st, ex) ==
    {k \in 1..Len(h) : /\ h[k].kind = "contract"
                       /\ h[k].symbol = <<d.symbol, st>>
                       /\ h[k].exchange = ex}

\* C21: an on_all_contracts reply emits, for every entry, one contract per
\* settlement speed (T0, T1) and exchange (XBOND, CFETS), then writes the
\* completion log as its last event, and does not raise
C21_FourContractsPerEntry ==
    op.name = "on_all_contracts" =>
        /\ ~ret.raised
        /\ Len(host) = 4 * Len(op.arg) + 1
        /\ host[Len(host)] = LogEvent(LOG_CONTRACTS_DONE)
        /\ \A k \in 1..(Len(host) - 1) : host[k].kind = "contract"
        /\ \A i \in 1..Len(op.arg) : \A st \in {"T0", "T1"}, ex \in {XBOND, CFETS} :
              Cardinality(ContractsFor(host, [symbol |-> op.arg[i].symbol], st, ex))
                 = Cardinality({j \in 1..Len(op.arg) : op.arg[j].symbol = op.arg[i].symbol})

(***************************************************************************)
(* Properties of the volumes of a tick                                     *)
(***************************************************************************)
\* a tick was emitted by the call in progress
TickEmitted == op.name = "on_tick" /\ Len(host) = 1 /\ host[1].kind = "tick"

\* the volumes of the emitted tick on a side
VolumesOf(e, side) == IF side = "bid" THEN e.bid_volume ELSE e.ask_volume

\* the volumes of an XBond tick are its raw volumes in natural units: the
\* traded volume, level k from raw level k + 1, the public best from raw
\* level 1
XbondVolumesDescaled ==
    /\ IsDescaled(host[1].volume, op.arg.volume)
    /\ \A k \in 1..LadderLevels :
          /\ IsDescaled(host[1].bid_volume[k], op.arg.bid_volume[k + 1])
          /\ IsDescaled(host[1].ask_volume[k], op.arg.ask_volume[k + 1])
    /\ host[1].public # None
    /\ IsDescaled(host[1].public[1].bid_volume, op.arg.bid_volume[1])
    /\ IsDescaled(host[1].public[1].ask_volume, op.arg.ask_volume[1])

\* the depths of a level map that convert_quote_tick copies: those before the
\* first depth the map lacks
Converted(level_map) ==
    {k \in 1..Min(ConvertDepths, Len(level_map)) :
        \A j \in 1..k : level_map[j].bid.present \/ level_map[j].ask.present}

\* C22 as stated: every volume of an emitted tick is the raw wire value of its
\* level divided by SIZE once: for a bilateral tick the quantity the level map
\* carries at that depth and side
C22_EveryVolumeDescaled ==
    TickEmitted =>
        IF IsXbondTick(op) THEN XbondVolumesDescaled
        ELSE \A side \in {"bid", "ask"} :
                \A k \in 1..Min(LadderLevels, Len(op.arg.level_map)) :
                   SideOf(op.arg.level_map[k], side).present
                      => IsDescaled(VolumesOf(host[1], side)[k],
                                    SideOf(op.arg.level_map[k], side).volume)

\* C22 amended: the volumes of an emitted XBond tick are the raw values
\* divided by SIZE once (the traded volume, level k from raw level k + 1, the
\* public best from raw level 1).  A bilateral tick has no traded volume on
\* the wire and shows 0; its volume at level k of a side is the quantity of
\* the level map at depth k divided by SIZE once when the map carries that
\* side at depth k and lacks no depth below k, and 0 otherwise: the depths
\* after the first one the map lacks are not shown
C22_CopiedVolumesDescaled ==
    TickEmitted =>
        IF IsXbondTick(op) THEN XbondVolumesDescaled
        ELSE /\ host[1].volume[1] = 0
             /\ host[1].public = None
             /\ \A side \in {"bid", "ask"} : \A k \in 1..LadderLevels :
                   IF k \in Converted(op.arg.level_map)
                      /\ SideOf(op.arg.level_map[k], side).present
                   THEN IsDescaled(VolumesOf(host[1], side)[k],
                                   SideOf(op.arg.level_map[k], side).volume)
                   ELSE VolumesOf(host[1], side)[k][1] = 0

\* C22 witness: an XBond tick with the raw traded volume SIZE was emitted with
\* the traded volume 1 and the volume 2 at the bid level 1 (raw level 2)
C22_Witness ==
    /\ TickEmitted
    /\ IsXbondTick(op)
    /\ op.arg.volume = SIZE
    /\ op.arg.bid_volume[2] = 2 * SIZE
    /\ host[1].volume = <<1, 1>>
    /\ host[1].bid_volume[1] = <<2, 1>>

(***************************************************************************)
(* Properties of the resolution of a bilateral order                       *)
(***************************************************************************)
\* the call in progress is a bilateral send-order that reached the vendor
AcceptedCfetsOrder == IsCfetsOrder /\ Len(vendor) = 1

\* the vendor payload carries the quote id, counterparty id and time of the
\* ladder entry
CarriesEntry(payload, entry) ==
    /\ payload.quoteId = entry.quoteid
    /\ payload.partyID = entry.partyid
    /\ payload.transactTime = entry.time

\* C23: an accepted bilateral send-order carries the quote id, counterparty id
\* and time of the entry at its price in the opposite ladder (ask for a LONG
\* order, bid otherwise) of the latest quote tick delivered for its instrument
C23_ResolvedAgainstLatestTick ==
    AcceptedCfetsOrder =>
        \A ladder \in {SideLadder(latest_ladders, op.arg.req)} :
            /\ op.arg.req.price \in DOMAIN ladder
            /\ CarriesEntry(vendor[1].data, ladder[op.arg.req.price])

(***************************************************************************)
(* Properties of the update of the quote cache                             *)
(***************************************************************************)
\* the ladder of a side holds exactly what the level map quotes in its leading
\* run of priced levels: every such price is found, and every entry is the
\* time, quote id and counterparty id of a level of the map at that price
RebuiltFrom(ladder, level_map, side) ==
    /\ \A k \in LeadingRun(level_map, side) :
          SideOf(level_map[k], side).price \in DOMAIN ladder
    /\ \A p \in DOMAIN ladder :
          \E k \in LeadingRun(level_map, side) :
             /\ SideOf(level_map[k], side).price = p
             /\ ladder[p] = MetaOf(SideOf(level_map[k], side))

\* C24: when a bilateral quote tick is emitted to the host, the cache of its
\* instrument has been rebuilt from that tick: a lookup at any price the tick
\* quotes in its leading run succeeds, and the ladders hold nothing else.  The
\* update leaves the ladders of every other instrument as they were, and an
\* XBond tick or an order, trade or quote push leaves the whole cache as it
\* was
C24_CacheRebuiltBeforeEmission ==
    [][/\ (IsQuoteTick(op') /\ Len(host') = 1) =>
            \A key \in {TickKey(op'.arg)} :
               /\ host'[1].kind = "tick"
               /\ host'[1].vt_symbol = key
               /\ key \in DOMAIN quote_infos'
               /\ \A side \in {"bid", "ask"} :
                     RebuiltFrom(LadderOf(quote_infos'[key], side),
                                 op'.arg.level_map, side)
       /\ IsQuoteTick(op') =>
            /\ DOMAIN quote_infos' \subseteq DOMAIN quote_infos \cup {TickKey(op'.arg)}
            /\ \A key \in DOMAIN quote_infos \ {TickKey(op'.arg)} :
                  /\ key \in DOMAIN quote_infos'
                  /\ quote_infos'[key] = quote_infos[key]
       /\ (IsXbondTick(op') \/ op'.name \in {"on_order", "on_trade", "on_quote"})
            => quote_infos' = quote_infos
    ]_vars

\* C24 witness: the host has the T0 quote tick of an instrument quoted at two
\* depths, the cache finds its second ask price, and the ladders of the T1
\* instrument, quoted before, are still there
C24_Witness ==
    /\ IsQuoteTick(op)
    /\ op.arg.settlType = "1"
    /\ Len(op.arg.level_map) = 2
    /\ Len(host) = 1
    /\ host[1].kind = "tick"
    /\ TickKey(op.arg) \in DOMAIN quote_infos
    /\ 2 \in DOMAIN quote_infos[TickKey(op.arg)].ask_info
    /\ \E key \in DOMAIN quote_infos :
          /\ key # TickKey(op.arg)
          /\ DOMAIN quote_infos[key].bid_info # {}

(***************************************************************************)
(* Properties of the SUBMITTING snapshot under concurrent pushes           *)
(***************************************************************************)
\* C25: among the order events the host receives for one order id, a
\* SUBMITTING snapshot comes first: none follows another event of that id
C25_SubmittingSnapshotFirst ==
    \A events \in {OrderEventsOf(host)} :
        \A i \in 1..Len(events), j \in 1..Len(events) :
            (/\ i < j
             /\ events[i].vt_orderid = events[j].vt_orderid)
                => events[j].status # SUBMITTING

====
